---- MODULE Spec2Model ----
(***************************************************************************)
(* Model of the agent tool-dispatch core of Shipping-Agent-Py:             *)
(*   src/agent/tools.py   ToolExecutor (rate cache, six tools, execute)    *)
(*   src/agent/agent.py   ShippingAgent._real_chat (tool-calling loop)     *)
(*   src/easypost_client.py  EasyPostClient (provider wrapper)             *)
(*   src/db/repository.py    the repositories the tools call               *)
(*                                                                         *)
(* Strings the code renders are modelled as records: `kind' names the      *)
(* template (the f-string), `detail' holds the text interpolated from an   *)
(* exception, `warnings' and `rates' the rendered lists.  Exceptions are   *)
(* records [type, text]; text is what str(e) yields.                       *)
(***************************************************************************)
EXTENDS Integers, Sequences, FiniteSets, TLC

VARIABLES
  \* ---- ToolExecutor (tools.py:348-373)
  rate_cache,            \* dict cache_key -> CachedRates
  rate_id_to_cache_key,  \* dict rate_id -> cache_key
  last_rates,            \* dict rate_id -> Rate (_last_rates)
  use_db,                \* db is not None and context.customer_id is set
  labels_used,           \* CustomerContext.labels_used
  \* ---- persistence collaborator and globals
  db_labels,             \* Customer.labels_this_month
  db_shipments,          \* rows of the shipments table, in insertion order
  order_status,          \* Order.status by order id
  mock_shipments,        \* MOCK_SHIPMENTS (module global), the order ids it holds
  \* ---- environment
  now,                   \* time.time(), seconds
  ticks,                 \* clock advances so far
  purchases,             \* labels the provider has sold (client.create_shipment returned)
  \* ---- last execute() call
  calls,                 \* execute() calls so far
  last_tool,             \* tool_name of the last call
  last_input,            \* tool_input of the last call
  outcome,               \* what execute() did: [tag, res, exc]
  inner,                 \* what the dispatched tool method did before execute's handlers
  hist,                  \* history of the rate ids: issued, evicted, replaced; previews run
  \* ---- ShippingAgent (agent.py:57-100)
  messages,              \* self.messages
  pc,                    \* position of _real_chat
  response,              \* the model response being processed
  block_i,               \* index of the next content block to dispatch
  tool_results,          \* the local list tool_results
  chat_result,           \* value returned by chat()
  model_calls,           \* client.messages.create calls in this turn
  tools_run,             \* execute() calls made by this turn
  failed_at,             \* [model_calls, tools_run] when a model call of this turn failed
  turns,                 \* user turns started
  conv_messages,         \* Conversation.messages, the persisted copy of the history
  \* ---- outside this session
  peer,                  \* a second session of the same process: its own executor and history
  rest_api,              \* requests in flight at the REST shipment endpoint
  loop,                  \* the server's event loop and the chat requests it was handed
  stream,                \* one WebSocket connection of /chat/stream
  auth                   \* the customer's row as the auth dependencies read it, and the last request

exec_vars == <<rate_cache, rate_id_to_cache_key, last_rates, use_db, labels_used,
               db_labels, db_shipments, order_status, mock_shipments, purchases>>
call_vars == <<calls, last_tool, last_input, outcome, inner, hist>>
env_vars == <<now, ticks>>
agent_vars == <<messages, pc, response, block_i, tool_results, chat_result,
                model_calls, tools_run, failed_at, turns, conv_messages>>
ext_vars == <<loop, stream, auth>>
side_vars == <<peer, rest_api, ext_vars>>
vars == <<exec_vars, call_vars, env_vars, agent_vars, side_vars>>

----------------------------------------------------------------------------
(* Bounds *)
MaxCalls == 2          \* execute() calls explored per behaviour of Spec
MaxCacheCalls == 3     \* execute() calls explored per behaviour of CacheSpec
MaxClockCalls == 2     \* execute() calls explored per behaviour of ClockSpec
MaxTicks == 1          \* clock advances explored per behaviour of ClockSpec
MaxTurns == 2          \* user turns explored per behaviour of AgentSpec
MaxModelCalls == 3     \* model calls explored per behaviour of AgentSpec
MaxSessionCalls == 2   \* execute() calls of each of two sessions explored by SessionSpec
MaxRequests == 3       \* requests in flight at the REST endpoint in RestSpec
MaxStored == 11        \* messages of the stored conversation an agent of SummarySpec loads
MaxLoopRequests == 3   \* chat requests, one per session, handed to the event loop
MaxLoopCalls == 2      \* model calls one chat request may make
MaxStreamMessages == 2 \* messages received on the WebSocket connection
MaxChunks == 2         \* chunks an answer is cut into
MaxAuthRequests == 2   \* API requests made as the customer
MaxResets == 1         \* resets of the session explored by ResetSpec

(* Program constants *)
WeightTolerance == 10      \* 0.1 oz, in hundredths of an ounce
RATE_CACHE_EXPIRY_SECONDS == 900
KEEP_RECENT_TURNS == 5
SUMMARIZE_THRESHOLD_TOKENS == 50000
CHARS_PER_TOKEN == 4
DefaultLabelsUsed == 42
LabelsLimit == 50      \* PLAN_LIMITS["free"]

----------------------------------------------------------------------------
(* Python values *)

\* dict.get(key, default)
Get(d, f, default) == IF f \in DOMAIN d THEN d[f] ELSE default

\* d[key] = v
DictSet(d, k, v) == [x \in DOMAIN d \cup {k} |-> IF x = k THEN v ELSE d[x]]

\* d.pop(key, None)
DictPop(d, k) == [x \in DOMAIN d \ {k} |-> d[x]]

EmptyDict == [x \in {} |-> 0]

\* A number as JSON delivers it: its value, in hundredths, and its str() form
\* (32 and 32.0 are equal numbers with different str()).  isnum FALSE is a value of the wrong type.
Num(n, r) == [num |-> n, repr |-> r, isnum |-> TRUE]
W16 == Num(1600, "16")
W32 == Num(3200, "32")
W32f == Num(3200, "32.0")
W3205 == Num(3205, "32.05")
BadWeight == [num |-> 0, repr |-> "heavy", isnum |-> FALSE]
Weights == {W16, W32, W32f}

Zips == {"90001", "10001"}

\* Rate (easypost_client.py:66-72); rate is the price in cents
Rate(id, price, carrier, service) ==
  [rate_id |-> id, rate |-> price, carrier |-> carrier, service |-> service]

RateIds == {"r1", "r2", "r3"}

\* What the provider API may answer to a rate request, in API order
ProviderQuotes ==
  { << Rate("r1", 900, "UPS", "ground"), Rate("r2", 500, "USPS", "priority") >>,
    << Rate("r3", 700, "USPS", "ground") >>,
    << Rate("r1", 600, "FedEx", "ground"), Rate("r3", 600, "USPS", "priority") >>,
    << >> }

\* Text carried by exceptions.  Raw texts are what the underlying library or
\* database put into the exception; the others are fixed sentences of the code.
RawProviderText == "raw provider error text"
RawDbText == "raw database error text"
RawModelText == "raw model API error text"
RawTexts == {RawProviderText, RawDbText, RawModelText}

Exc(type, text) == [type |-> type, text |-> text]
NoExc == Exc("none", "")

\* A rendered string
Res(kind) ==
  [kind |-> kind, detail |-> "", text |-> << >>, warnings |-> << >>, rates |-> << >>,
   orders |-> << >>, errors |-> << >>, total |-> 0]
ResDetail(kind, detail) == [Res(kind) EXCEPT !.detail = detail]
NoRes == Res("none")

----------------------------------------------------------------------------
(* Orders known to the persistence collaborator and the module's mock data *)

ThisCustomer == "c1"
OtherCustomer == "c2"

\* rows of the orders table: o1, o2 belong to this session's customer, o3 to another
DbOrders == {"o1", "o2", "o3"}
\* MOCK_ORDERS (tools.py:22-95), cut down to two entries
MockOrders == {"m1", "m2"}
Orders == DbOrders \cup MockOrders

OrderInfo ==
  [o \in Orders |->
     CASE o = "o1" -> [customer |-> ThisCustomer, weight_oz |-> 8, state |-> "CA",
                       zip |-> "90001", created_at |-> 3, search |-> {"1001", "alice"}]
       [] o = "o2" -> [customer |-> ThisCustomer, weight_oz |-> 24, state |-> "TX",
                       zip |-> "10001", created_at |-> 4, search |-> {"1002", "bob"}]
       [] o = "o3" -> [customer |-> OtherCustomer, weight_oz |-> 8, state |-> "CA",
                       zip |-> "90001", created_at |-> 5, search |-> {"1003", "carol"}]
       [] o = "m1" -> [customer |-> "", weight_oz |-> 24, state |-> "CA",
                       zip |-> "90001", created_at |-> 3, search |-> {"1001", "alice", "ca"}]
       [] o = "m2" -> [customer |-> "", weight_oz |-> 8, state |-> "TX",
                       zip |-> "10001", created_at |-> 4, search |-> {"1002", "bob", "tx"}]]

\* MOCK_ORDERS in list order
MockOrderList == << "m1", "m2" >>

\* strings UUID() accepts; "o9" is a well-formed id of no order
ValidUuids == DbOrders \cup {"o9"}

\* the Shipment the provider returns for a bought label (easypost_client.py:75-82)
BoughtShipment == [id |-> "shp_1", tracking_number |-> "1Z999", carrier |-> "UPS", rate |-> 850]

----------------------------------------------------------------------------
(* EasyPostClient: what the wrapper turns the provider API's behaviour into.  *)
(* A raw outcome is [tag, rates]; tag "ok", "api_error" (easypost ApiError)   *)
(* or "error" (any other exception), both carrying RawProviderText.           *)

RECURSIVE InsertByRate(_, _)
\* position-preserving insert of r after every element whose price is <= r's
InsertByRate(sorted, r) ==
  IF sorted = << >> THEN << r >>
  ELSE IF Head(sorted).rate <= r.rate
       THEN << Head(sorted) >> \o InsertByRate(Tail(sorted), r)
       ELSE << r >> \o sorted

\* get_rates that returns the rates in the provider's order
ProviderOrder(rates) == rates

RECURSIVE SortByRate(_)
\* rates.sort(key=lambda x: x.rate): list.sort is stable
SortByRate(rates) ==
  IF rates = << >> THEN << >>
  ELSE InsertByRate(SortByRate(SubSeq(rates, 1, Len(rates) - 1)), rates[Len(rates)])

ClientOk(value) == [tag |-> "ok", value |-> value, exc |-> NoExc]
ClientRaise(type, text) == [tag |-> "raise", value |-> << >>, exc |-> Exc(type, text)]

\* EasyPostClient.get_rates
ClientGetRates(raw) ==
  IF raw.tag = "api_error"
  THEN ClientRaise("RateError", "Unable to fetch shipping rates. Please verify the address and try again.")
  ELSE IF raw.tag = "error"
  THEN ClientRaise("RateError", "An error occurred while fetching shipping rates.")
  ELSE ClientOk(SortByRate(raw.rates))

\* EasyPostClient.create_shipment: shipment.create, then shipment.buy
\* raw is "ok", "create_api_error", "create_error", "buy_api_error" or "buy_error"
ClientCreateShipment(raw) ==
  CASE raw = "create_api_error" ->
         ClientRaise("ShipmentError", "Unable to create shipment. Please verify the address and try again.")
    [] raw = "create_error" ->
         ClientRaise("ShipmentError", "An error occurred while creating the shipment.")
    [] raw = "buy_api_error" ->
         ClientRaise("ShipmentError", "Unable to purchase shipping label. The rate may have expired.")
    [] raw = "buy_error" ->
         ClientRaise("ShipmentError", "An error occurred while purchasing the label.")
    [] OTHER -> ClientOk(BoughtShipment)

\* EasyPostClient.validate_address: returns (is_valid, corrected, message) or raises
ClientValidateAddress(raw) ==
  CASE raw = "api_error" ->
         ClientOk([is_valid |-> FALSE, message |-> "Address could not be verified. Please check the address and try again."])
    [] raw = "error" ->
         ClientRaise("AddressValidationError", "An error occurred while validating the address.")
    [] OTHER -> ClientOk([is_valid |-> TRUE, message |-> "Address is valid"])

\* EasyPostClient.get_tracking
ClientGetTracking(raw) ==
  CASE raw = "api_error" ->
         ClientRaise("TrackingError", "Unable to fetch tracking information. Please try again later.")
    [] raw = "error" ->
         ClientRaise("TrackingError", "An error occurred while fetching tracking information.")
    [] OTHER -> ClientOk([status |-> "in_transit"])

RawRateOutcomes ==
  { [tag |-> "ok", rates |-> q] : q \in ProviderQuotes }
    \cup { [tag |-> t, rates |-> << >>] : t \in {"api_error", "error"} }
RawPurchaseOutcomes == {"ok", "create_api_error", "buy_api_error", "buy_error"}
RawSimpleOutcomes == {"ok", "api_error", "error"}

----------------------------------------------------------------------------
(* ToolExecutor.  A tool method is an operator from the executor state, the    *)
(* input mapping and the collaborators' behaviour during the call to           *)
(* [st, tag, res, exc]: the state it leaves, and the string it returns         *)
(* (tag "return") or the exception it lets out (tag "raise").                  *)

ExecState ==
  [rate_cache |-> rate_cache, idx |-> rate_id_to_cache_key, last_rates |-> last_rates,
   use_db |-> use_db, labels_used |-> labels_used, db_labels |-> db_labels,
   db_shipments |-> db_shipments, order_status |-> order_status,
   mock_shipments |-> mock_shipments, purchases |-> purchases]

Ret(st, res) == [st |-> st, tag |-> "return", res |-> res, exc |-> NoExc]
Raise(st, exc) == [st |-> st, tag |-> "raise", res |-> NoRes, exc |-> exc]

\* a value that is not a mapping (None, a list, a string) in place of tool_input
NotADict == [x \in {"__not_a_dict__"} |-> TRUE]
IsDict(params) == "__not_a_dict__" \notin DOMAIN params

\* the first of the fields, in evaluation order, that params[...] fails on
RECURSIVE FirstMissing(_, _)
FirstMissing(params, fields) ==
  IF fields = << >> THEN ""
  ELSE IF Head(fields) \notin DOMAIN params THEN Head(fields)
       ELSE FirstMissing(params, Tail(fields))

\* ToolExecutor._rate_cache_key: f"{destination_zip}:{weight_oz}"
RateCacheKey(destination_zip, weight_oz) == << destination_zip, weight_oz.repr >>

\* is_stale that already holds at the expiry time
IsStaleAtExpiry(cached, t) == (t - cached.timestamp) >= RATE_CACHE_EXPIRY_SECONDS

\* CachedRates.is_stale
IsStale(cached, t) == (t - cached.timestamp) > RATE_CACHE_EXPIRY_SECONDS

\* the three not-found sentences of _get_rate_by_id and its staleness warning
NotFoundInCache == "Rate ID not found in cache. Please request new rates."
CacheExpired == "Rate cache expired. Please request new rates."
NotFoundInEntry == "Rate ID not found. Please request new rates."
StaleWarning == "Warning: These rates are old and may no longer be accurate."
NotFoundMessages == {NotFoundInCache, CacheExpired, NotFoundInEntry}

\* ToolExecutor._get_rate_by_id: (rate, warning); found is "rate is not None"
GetRateById(st, rate_id, t) ==
  IF rate_id \notin DOMAIN st.idx
  THEN [found |-> FALSE, warning |-> NotFoundInCache]
  ELSE LET cache_key == st.idx[rate_id] IN
       IF cache_key \notin DOMAIN st.rate_cache
       THEN [found |-> FALSE, warning |-> CacheExpired]
       ELSE LET cached == st.rate_cache[cache_key] IN
            IF \E i \in 1..Len(cached.rates) : cached.rates[i].rate_id = rate_id
            THEN [found |-> TRUE,
                  warning |-> IF IsStale(cached, t) THEN StaleWarning ELSE ""]
            ELSE [found |-> FALSE, warning |-> NotFoundInEntry]

RECURSIVE PopAll(_, _)
\* for rate in rates: d.pop(rate.rate_id, None)
PopAll(d, rates) ==
  IF rates = << >> THEN d ELSE PopAll(DictPop(d, Head(rates).rate_id), Tail(rates))

RECURSIVE IndexAll(_, _, _)
\* for r in rates: d[r.rate_id] = v
IndexAll(d, rates, v) ==
  IF rates = << >> THEN d ELSE IndexAll(DictSet(d, Head(rates).rate_id, v), Tail(rates), v)

RECURSIVE StoreAll(_, _)
\* for r in rates: d[r.rate_id] = r
StoreAll(d, rates) ==
  IF rates = << >> THEN d ELSE StoreAll(DictSet(d, Head(rates).rate_id, Head(rates)), Tail(rates))

\* rates[:n]
Take(seq, n) == SubSeq(seq, 1, IF Len(seq) < n THEN Len(seq) ELSE n)

\* caching that adds the new rates to the entry of the key and keeps the old ones
StoreQuoteExtend(st, params, rates, t) ==
  LET cache_key == RateCacheKey(params.to_zip, params.weight_oz)
      old == IF cache_key \in DOMAIN st.rate_cache THEN st.rate_cache[cache_key].rates ELSE << >>
      entry == [rates |-> old \o rates, destination_zip |-> params.to_zip,
                weight_oz |-> params.weight_oz, timestamp |-> t]
  IN [st EXCEPT !.rate_cache = DictSet(st.rate_cache, cache_key, entry),
                !.idx = IndexAll(st.idx, rates, cache_key),
                !.last_rates = StoreAll(st.last_rates, rates)]

\* caching that replaces the entry of the key and leaves the old ids indexed
StoreQuoteKeepIndex(st, params, rates, t) ==
  [st EXCEPT !.rate_cache =
               DictSet(st.rate_cache, RateCacheKey(params.to_zip, params.weight_oz),
                       [rates |-> rates, destination_zip |-> params.to_zip,
                        weight_oz |-> params.weight_oz, timestamp |-> t]),
             !.idx = IndexAll(st.idx, rates, RateCacheKey(params.to_zip, params.weight_oz)),
             !.last_rates = StoreAll(st.last_rates, rates)]

\* caching a non-empty quote (tools.py:459-476): evict the ids of the entry
\* being replaced, store the new entry, index its ids
StoreQuote(st, params, rates, t) ==
  LET cache_key == RateCacheKey(params.to_zip, params.weight_oz)
      evict == cache_key \in DOMAIN st.rate_cache
      idx1 == IF evict THEN PopAll(st.idx, st.rate_cache[cache_key].rates) ELSE st.idx
      last1 == IF evict THEN PopAll(st.last_rates, st.rate_cache[cache_key].rates)
               ELSE st.last_rates
      entry == [rates |-> rates, destination_zip |-> params.to_zip,
                weight_oz |-> params.weight_oz, timestamp |-> t]
  IN [st EXCEPT !.rate_cache = DictSet(st.rate_cache, cache_key, entry),
                !.idx = IndexAll(idx1, rates, cache_key),
                !.last_rates = StoreAll(last1, rates)]

\* _get_rates that drops the cached entry of the key before asking the provider
ToolGetRatesEvictFirst(st, params, raw, t) ==
  IF ~IsDict(params) THEN Raise(st, Exc("AttributeError", "object has no attribute 'get'"))
  ELSE IF FirstMissing(params, << "to_city", "to_state", "to_zip", "weight_oz" >>) # ""
  THEN Raise(st, Exc("KeyError",
                     FirstMissing(params, << "to_city", "to_state", "to_zip", "weight_oz" >>)))
  ELSE LET cache_key == RateCacheKey(params.to_zip, params.weight_oz)
           cleared == IF cache_key \in DOMAIN st.rate_cache
                      THEN [st EXCEPT !.rate_cache = DictPop(@, cache_key),
                                      !.idx = PopAll(@, st.rate_cache[cache_key].rates),
                                      !.last_rates = PopAll(@, st.rate_cache[cache_key].rates)]
                      ELSE st
           got == ClientGetRates(raw) IN
  IF got.tag = "raise" THEN Ret(cleared, ResDetail("Error getting rates", got.exc.text))
  ELSE IF got.value = << >> THEN Ret(cleared, Res("No rates available for this shipment."))
  ELSE Ret(StoreQuote(cleared, params, got.value, t),
           [Res("Available shipping rates (sorted by price)") EXCEPT !.rates = Take(got.value, 10)])

\* ToolExecutor._get_rates; raw is the provider API's behaviour
ToolGetRates(st, params, raw, t) ==
  IF ~IsDict(params) THEN Raise(st, Exc("AttributeError", "object has no attribute 'get'"))
  ELSE LET missing == FirstMissing(params, << "to_city", "to_state", "to_zip", "weight_oz" >>) IN
  IF missing # "" THEN Raise(st, Exc("KeyError", missing))
  ELSE LET got == ClientGetRates(raw) IN
  IF got.tag = "raise" THEN Ret(st, ResDetail("Error getting rates", got.exc.text))
  ELSE LET rates == got.value IN
  IF rates = << >> THEN Ret(st, Res("No rates available for this shipment."))
  ELSE Ret(StoreQuote(st, params, rates, t),
           [Res("Available shipping rates (sorted by price)") EXCEPT !.rates = Take(rates, 10)])

\* a row of the shipments table (ShipmentRepository.create)
ShipmentRow(order_id, shipment) ==
  [customer_id |-> ThisCustomer, order_id |-> order_id,
   tracking_number |-> shipment.tracking_number, carrier |-> shipment.carrier]

\* OrderRepository.update_status(id, "shipped"): any row with that id, whoever owns it
UpdateStatusShipped(status, id) ==
  IF id \in DOMAIN status THEN [status EXCEPT ![id] = "shipped"] ELSE status

\* the database exception a repository call lets out
DbError == Exc("OperationalError", RawDbText)

\* which repository call of a purchase fails, if any
DbFailures == {"none", "create", "update_status", "increment"}

\* the try block of _create_shipment (tools.py:556-609): buy the label, record
\* the shipment, mark the order shipped, count the label
PurchaseAndRecord(st, params, raw, db_fail, warnings) ==
  LET bought == ClientCreateShipment(raw) IN
  IF bought.tag = "raise" THEN Ret(st, ResDetail("Error creating shipment", bought.exc.text))
  ELSE
    LET shipment == bought.value
        st1 == [st EXCEPT !.purchases = @ + 1]
        order_id == Get(params, "order_id", "")
        db_order_id == IF order_id \in ValidUuids THEN order_id ELSE ""
        st2 == [st1 EXCEPT !.db_shipments = Append(@, ShipmentRow(db_order_id, shipment))]
        st3 == IF db_order_id # ""
               THEN [st2 EXCEPT !.order_status = UpdateStatusShipped(@, db_order_id)]
               ELSE st2
        st4 == [st3 EXCEPT !.db_labels = @ + 1, !.labels_used = @ + 1]
        done == [Res("Shipment created successfully!") EXCEPT !.warnings = warnings]
        failed == ResDetail("Error creating shipment", DbError.text)
    IN
    IF ~st.use_db THEN Ret(st1, done)
    ELSE IF db_fail = "create" THEN Ret(st1, failed)
    ELSE IF db_fail = "update_status" /\ db_order_id # "" THEN Ret(st2, failed)
    ELSE IF db_fail = "increment" THEN Ret(st3, failed)
    ELSE Ret(st4, done)

\* the fields _create_shipment reads with params[...], in evaluation order
ShipmentFields == << "to_name", "to_street", "to_city", "to_state", "to_zip", "weight_oz", "rate_id" >>

\* _create_shipment that buys the label although the rate_id did not resolve
ToolCreateShipmentIgnoreMiss(st, params, raw, db_fail, t) ==
  IF ~IsDict(params) THEN Raise(st, Exc("TypeError", "object is not subscriptable"))
  ELSE IF FirstMissing(params, ShipmentFields) # ""
  THEN Raise(st, Exc("KeyError", FirstMissing(params, ShipmentFields)))
  ELSE IF ~params.weight_oz.isnum THEN Raise(st, Exc("TypeError", "unsupported operand type(s)"))
  ELSE PurchaseAndRecord(st, params, raw, db_fail, << >>)

\* abs(a - b)
AbsDiff(a, b) == IF a < b THEN b - a ELSE a - b

\* _create_shipment that warns of any difference in weight
CreateShipmentExactWeight(st, params, raw, db_fail, t) ==
  IF ~IsDict(params) THEN Raise(st, Exc("TypeError", "object is not subscriptable"))
  ELSE IF FirstMissing(params, ShipmentFields) # ""
  THEN Raise(st, Exc("KeyError", FirstMissing(params, ShipmentFields)))
  ELSE IF ~GetRateById(st, params.rate_id, t).found
  THEN Ret(st, Res(GetRateById(st, params.rate_id, t).warning))
  ELSE IF ~params.weight_oz.isnum THEN Raise(st, Exc("TypeError", "unsupported operand type(s)"))
  ELSE PurchaseAndRecord(st, params, raw, db_fail,
         (IF GetRateById(st, params.rate_id, t).warning # ""
          THEN << GetRateById(st, params.rate_id, t).warning >> ELSE << >>)
         \o (IF st.rate_cache[st.idx[params.rate_id]].destination_zip # params.to_zip
             THEN << "Warning: Destination ZIP changed since rates were fetched." >> ELSE << >>)
         \o (IF st.rate_cache[st.idx[params.rate_id]].weight_oz.num # params.weight_oz.num
             THEN << "Warning: Package weight changed since rates were fetched." >> ELSE << >>))

\* ToolExecutor._create_shipment; raw is the provider's behaviour, db_fail the
\* repository call that raises
ToolCreateShipment(st, params, raw, db_fail, t) ==
  IF ~IsDict(params) THEN Raise(st, Exc("TypeError", "object is not subscriptable"))
  ELSE LET missing == FirstMissing(params, ShipmentFields) IN
  IF missing # "" THEN Raise(st, Exc("KeyError", missing))
  ELSE LET rate_id == params.rate_id
           looked == GetRateById(st, rate_id, t) IN
  IF ~looked.found THEN Ret(st, Res(looked.warning))
  ELSE
    LET cached == st.rate_cache[st.idx[rate_id]]
        w1 == IF looked.warning # "" THEN << looked.warning >> ELSE << >>
        w2 == IF cached.destination_zip # params.to_zip
              THEN << "Warning: Destination ZIP changed since rates were fetched." >> ELSE << >>
        w3 == IF AbsDiff(cached.weight_oz.num, params.weight_oz.num) > WeightTolerance
              THEN << "Warning: Package weight changed since rates were fetched." >> ELSE << >>
    IN
    \* abs(cached.weight_oz - params["weight_oz"]) on a non-number, outside the try
    IF ~params.weight_oz.isnum THEN Raise(st, Exc("TypeError", "unsupported operand type(s)"))
    ELSE PurchaseAndRecord(st, params, raw, db_fail, w1 \o w2 \o w3)

\* ToolExecutor._validate_address
ToolValidateAddress(st, params, raw) ==
  IF ~IsDict(params) THEN Raise(st, Exc("AttributeError", "object has no attribute 'get'"))
  ELSE LET missing == FirstMissing(params, << "street", "city", "state", "zip" >>) IN
  IF missing # "" THEN Raise(st, Exc("KeyError", missing))
  ELSE LET got == ClientValidateAddress(raw) IN
  IF got.tag = "raise" THEN Ret(st, ResDetail("Error validating address", got.exc.text))
  ELSE IF got.value.is_valid THEN Ret(st, Res("Address is valid."))
  ELSE Ret(st, ResDetail("Address validation failed", got.value.message))

\* tracking numbers of the model and the prefix the code looks at
TrackingNumbers == {"1Z999", "94001", "78001", "XX001"}
\* a tracking_number of the wrong type (a number)
BadTracking == "<int>"

\* carrier inference from the tracking number format
InferCarrier(tracking_number) ==
  CASE tracking_number = "1Z999" -> "UPS"
    [] tracking_number = "94001" -> "USPS"
    [] tracking_number = "78001" -> "FedEx"
    [] OTHER -> "USPS"

\* _get_tracking_status without its check that one of the two fields is given
TrackingWithoutInputCheck(st, params, raw, db_fail) ==
  IF ~IsDict(params) THEN Raise(st, Exc("AttributeError", "object has no attribute 'get'"))
  ELSE Ret(st, Res("No shipment found for order"))

\* ToolExecutor._get_tracking_status; db_fail TRUE when the repository query raises
ToolGetTrackingStatus(st, params, raw, db_fail) ==
  IF ~IsDict(params) THEN Raise(st, Exc("AttributeError", "object has no attribute 'get'"))
  ELSE
    LET tn0 == Get(params, "tracking_number", "")
        order_id == Get(params, "order_id", "")
        ByOrder(row) == row.order_id = order_id
        ByTracking(row) == row.tracking_number = tn0
        queried == st.use_db /\ ((order_id # "" /\ tn0 = "" /\ order_id \in ValidUuids) \/ tn0 # "")
        found == IF ~st.use_db THEN << >>
                 ELSE IF order_id # "" /\ tn0 = ""
                      THEN (IF order_id \in ValidUuids THEN Take(SelectSeq(st.db_shipments, ByOrder), 1)
                            ELSE << >>)
                      ELSE IF tn0 # "" THEN Take(SelectSeq(st.db_shipments, ByTracking), 1) ELSE << >>
        tn1 == IF found # << >> THEN found[1].tracking_number ELSE tn0
        carrier1 == IF found # << >> THEN found[1].carrier ELSE ""
        in_mock == order_id \in st.mock_shipments
        tn2 == IF tn1 = "" /\ order_id # "" THEN BoughtShipment.tracking_number ELSE tn1
        carrier2 == IF tn1 = "" /\ order_id # "" THEN BoughtShipment.carrier ELSE carrier1
        carrier == IF carrier2 = "" THEN InferCarrier(tn2) ELSE carrier2
        got == ClientGetTracking(raw)
    IN
    IF tn0 = "" /\ order_id = ""
    THEN Ret(st, Res("Error: Please provide either tracking_number or order_id"))
    ELSE IF queried /\ db_fail THEN Raise(st, DbError)
    ELSE IF tn1 = "" /\ order_id # "" /\ ~in_mock
    THEN Ret(st, Res("No shipment found for order"))
    ELSE IF carrier2 = "" /\ tn2 = BadTracking
    THEN Raise(st, Exc("AttributeError", "object has no attribute 'startswith'"))
    ELSE IF got.tag = "raise" THEN Ret(st, ResDetail("Error getting tracking info", got.exc.text))
    ELSE Ret(st, [Res("Tracking") EXCEPT !.detail = carrier])

\* orders of the orders table, newest first (order_by created_at desc)
DbOrderList == << "o3", "o2", "o1" >>

\* OrderRepository.list_unfulfilled (search is None or a lower-case needle)
ListUnfulfilled(status, limit, search) ==
  LET Match(o) == /\ OrderInfo[o].customer = ThisCustomer
                  /\ status[o] = "unfulfilled"
                  /\ (search = "" \/ search \in OrderInfo[o].search)
  IN Take(SelectSeq(DbOrderList, Match), limit)

\* ToolExecutor._get_unfulfilled_orders
ToolGetUnfulfilledOrders(st, params, db_fail) ==
  IF ~IsDict(params) THEN Raise(st, Exc("AttributeError", "object has no attribute 'get'"))
  ELSE
    LET limit == Get(params, "limit", 20)
        search == Get(params, "search", "")
        MockMatch(o) == search = "" \/ search \in OrderInfo[o].search
        orders == IF st.use_db THEN ListUnfulfilled(st.order_status, limit, search)
                  ELSE Take(SelectSeq(MockOrderList, MockMatch), limit)
    IN
    IF st.use_db /\ db_fail THEN Raise(st, DbError)
    ELSE IF orders = << >>
    THEN Ret(st, IF search # "" THEN Res("No unfulfilled orders found matching")
                 ELSE Res("No unfulfilled orders found."))
    ELSE Ret(st, [Res("Unfulfilled Orders") EXCEPT !.orders = orders])

----------------------------------------------------------------------------
(* bulk_ship_orders *)

\* what happens to one order of a bulk call: its quote, its purchase and the
\* repository calls that follow the purchase
BulkScenarios == {"ok", "no_rates", "quote_error", "buy_failed",
                  "db_create_failed", "db_status_failed"}

\* the provider's answer to the rate request of an order whose quote succeeds
BulkQuote == << Rate("r1", 900, "UPS", "ground"), Rate("r2", 500, "USPS", "priority") >>

BulkRawQuote(scenario) ==
  CASE scenario = "no_rates" -> [tag |-> "ok", rates |-> << >>]
    [] scenario = "quote_error" -> [tag |-> "api_error", rates |-> << >>]
    [] OTHER -> [tag |-> "ok", rates |-> BulkQuote]

\* the rate selection of _bulk_ship_orders (tools.py:879-895); rates is not empty
SelectRate(rates, use_cheapest, carrier, service) ==
  LET ByBoth(r) == r.carrier = carrier /\ r.service = service
      ByCarrier(r) == r.carrier = carrier
      picked == IF use_cheapest THEN << rates[1] >>
                ELSE IF carrier # "" /\ service # "" THEN Take(SelectSeq(rates, ByBoth), 1)
                ELSE IF carrier # "" THEN Take(SelectSeq(rates, ByCarrier), 1)
                ELSE << >>
  IN IF picked = << >> THEN rates[1] ELSE picked[1]

\* str.upper on the state codes of the model
Upper(x) == CASE x = "ca" -> "CA" [] x = "tx" -> "TX" [] OTHER -> x

\* the filter of _bulk_ship_orders applied to one order
PassesFilter(o, filter_params) ==
  \/ filter_params = EmptyDict
  \/ /\ ("max_weight_oz" \in DOMAIN filter_params
           => OrderInfo[o].weight_oz <= filter_params.max_weight_oz)
     /\ ("destination_state" \in DOMAIN filter_params
           => Upper(OrderInfo[o].state) = Upper(filter_params.destination_state))
     /\ ("created_after" \in DOMAIN filter_params
           => OrderInfo[o].created_at >= filter_params.created_after)

\* OrderRepository.get_by_ids: the rows with these ids, whoever owns them and
\* whatever their status
GetByIds(ids) ==
  LET Named(o) == \E i \in 1..Len(ids) : ids[i] = o IN SelectSeq(DbOrderList, Named)

\* the candidate orders of a bulk call (tools.py:774-846)
BulkCandidates(st, order_ids, filter_params) ==
  LET IsUuid(x) == x \in ValidUuids
      uuids == SelectSeq(order_ids, IsUuid)
      Passes(o) == PassesFilter(o, filter_params)
      NamedMock(o) == \E i \in 1..Len(order_ids) : order_ids[i] = o
  IN IF st.use_db
     THEN SelectSeq(IF order_ids # << >>
                    THEN (IF uuids # << >> THEN GetByIds(uuids) ELSE << >>)
                    ELSE ListUnfulfilled(st.order_status, 100, ""), Passes)
     ELSE SelectSeq(IF order_ids # << >> THEN SelectSeq(MockOrderList, NamedMock)
                    ELSE MockOrderList, Passes)

RECURSIVE BulkQuoteAll(_, _, _, _, _)
\* the quoting loop (tools.py:855-907): one summary per order
BulkQuoteAll(orders, scen, use_cheapest, carrier, service) ==
  IF orders = << >> THEN << >>
  ELSE LET o == Head(orders)
           got == ClientGetRates(BulkRawQuote(scen[o]))
           summary ==
             IF got.tag = "raise"
             THEN [order |-> o, ok |-> FALSE, error |-> got.exc.text, rate |-> << >>]
             ELSE IF got.value = << >>
             THEN [order |-> o, ok |-> FALSE, error |-> "No rates available", rate |-> << >>]
             ELSE [order |-> o, ok |-> TRUE, error |-> "",
                   rate |-> << SelectRate(got.value, use_cheapest, carrier, service) >>]
       IN << summary >> \o BulkQuoteAll(Tail(orders), scen, use_cheapest, carrier, service)

RECURSIVE SumRates(_)
SumRates(summaries) ==
  IF summaries = << >> THEN 0
  ELSE (IF Head(summaries).ok THEN Head(summaries).rate[1].rate ELSE 0) + SumRates(Tail(summaries))

RECURSIVE BulkExecute(_, _, _)
\* the purchase loop (tools.py:948-1006) over the valid summaries:
\* [st, results, labels_created]
BulkExecute(st, valid, scen) ==
  IF valid = << >> THEN [st |-> st, results |-> << >>, labels_created |-> 0]
  ELSE
    LET o == Head(valid).order
        sc == scen[o]
        bought == ClientCreateShipment(IF sc = "buy_failed" THEN "buy_api_error" ELSE "ok")
        st1 == [st EXCEPT !.purchases = @ + 1]
        st2 == [st1 EXCEPT !.db_shipments = Append(@, ShipmentRow(o, bought.value))]
        st3 == [st2 EXCEPT !.order_status = UpdateStatusShipped(@, o)]
        stm == [st1 EXCEPT !.mock_shipments = @ \cup {o}]
        step ==
          IF bought.tag = "raise"
          THEN [st |-> st, ok |-> FALSE, error |-> bought.exc.text, counted |-> 0]
          ELSE IF ~st.use_db THEN [st |-> stm, ok |-> TRUE, error |-> "", counted |-> 0]
          ELSE IF sc = "db_create_failed"
          THEN [st |-> st1, ok |-> FALSE, error |-> DbError.text, counted |-> 0]
          ELSE IF sc = "db_status_failed"
          THEN [st |-> st2, ok |-> FALSE, error |-> DbError.text, counted |-> 0]
          ELSE [st |-> st3, ok |-> TRUE, error |-> "", counted |-> 1]
        rest == BulkExecute(step.st, Tail(valid), scen)
    IN [st |-> rest.st,
        results |-> << [order |-> o, ok |-> step.ok, error |-> step.error] >> \o rest.results,
        labels_created |-> step.counted + rest.labels_created]

\* _bulk_ship_orders once its parameters are read; confirmed is
\* params.get("confirmed", False)
BulkShipPhases(st, params, confirmed, scen, resolve_fail, inc_fail) ==
  LET order_ids == Get(params, "order_ids", << >>)
      filter_params == Get(params, "filter", EmptyDict)
      carrier == Get(params, "carrier", "")
      service == Get(params, "service", "")
      use_cheapest == Get(params, "cheapest", FALSE)
      queried == st.use_db /\ (order_ids = << >> \/ \E i \in 1..Len(order_ids) : order_ids[i] \in ValidUuids)
      orders == BulkCandidates(st, order_ids, filter_params)
      summaries == BulkQuoteAll(orders, scen, use_cheapest, carrier, service)
      IsValid(s) == s.ok
      IsError(s) == ~s.ok
      valid_orders == SelectSeq(summaries, IsValid)
      error_orders == SelectSeq(summaries, IsError)
      total_cost == SumRates(summaries)
      ran == BulkExecute(st, valid_orders, scen)
      successful == SelectSeq(ran.results, IsValid)
      failed == SelectSeq(ran.results, IsError)
      counted == [ran.st EXCEPT !.db_labels = @ + ran.labels_created,
                                !.labels_used = @ + ran.labels_created]
  IN
  IF queried /\ resolve_fail THEN Raise(st, DbError)
  ELSE IF orders = << >> THEN Ret(st, Res("No orders match the specified criteria."))
  ELSE IF ~confirmed
  THEN Ret(st, [Res("Bulk Shipping Preview") EXCEPT
                  !.orders = Take([i \in 1..Len(valid_orders) |-> valid_orders[i].order], 10),
                  !.errors = [i \in 1..Len(error_orders) |->
                                << error_orders[i].order, error_orders[i].error >>],
                  !.total = total_cost])
  ELSE IF ran.labels_created > 0 /\ st.use_db /\ inc_fail THEN Raise(ran.st, DbError)
  ELSE Ret(IF ran.labels_created > 0 /\ st.use_db THEN counted ELSE ran.st,
           [Res("Bulk Shipping Complete!") EXCEPT
              !.orders = [i \in 1..Len(successful) |-> successful[i].order],
              !.errors = [i \in 1..Len(failed) |-> << failed[i].order, failed[i].error >>],
              !.total = Len(successful) * BoughtShipment.rate])

\* _bulk_ship_orders that executes unless told confirmed=false
ToolBulkShipOrdersDefaultConfirmed(st, params, scen, resolve_fail, inc_fail) ==
  IF ~IsDict(params) THEN Raise(st, Exc("AttributeError", "object has no attribute 'get'"))
  ELSE BulkShipPhases(st, params, Get(params, "confirmed", TRUE), scen, resolve_fail, inc_fail)

\* ToolExecutor._bulk_ship_orders; scen gives each order's scenario, resolve_fail
\* and inc_fail say whether the order query and the label-count update raise
ToolBulkShipOrders(st, params, scen, resolve_fail, inc_fail) ==
  IF ~IsDict(params) THEN Raise(st, Exc("AttributeError", "object has no attribute 'get'"))
  ELSE BulkShipPhases(st, params, Get(params, "confirmed", FALSE), scen, resolve_fail, inc_fail)

----------------------------------------------------------------------------
(* ToolExecutor.execute *)

ToolNames == {"get_shipping_rates", "validate_address", "create_shipment",
              "get_tracking_status", "get_unfulfilled_orders", "bulk_ship_orders"}

\* the collaborators' behaviour during one execute() call
Env(rate, purchase, simple, db_fail, scen, flag) ==
  [rate |-> rate, purchase |-> purchase, simple |-> simple, db_fail |-> db_fail,
   scen |-> scen, flag |-> flag]

AllOk == [o \in Orders |-> "ok"]
QuietEnv == Env([tag |-> "ok", rates |-> << >>], "ok", "ok", "none", AllOk, FALSE)

\* the if/elif chain of execute (tools.py:409-422)
Dispatch(st, tool_name, tool_input, env, t) ==
  CASE tool_name = "get_shipping_rates" -> ToolGetRates(st, tool_input, env.rate, t)
    [] tool_name = "validate_address" -> ToolValidateAddress(st, tool_input, env.simple)
    [] tool_name = "create_shipment" ->
         ToolCreateShipment(st, tool_input, env.purchase, env.db_fail, t)
    [] tool_name = "get_tracking_status" ->
         ToolGetTrackingStatus(st, tool_input, env.simple, env.flag)
    [] tool_name = "get_unfulfilled_orders" -> ToolGetUnfulfilledOrders(st, tool_input, env.flag)
    [] tool_name = "bulk_ship_orders" ->
         ToolBulkShipOrders(st, tool_input, env.scen, env.flag, env.db_fail = "increment")
    [] OTHER -> Ret(st, ResDetail("Unknown tool", tool_name))

\* the KeyError handler alone
KeyErrorHandlerOnly(did) ==
  IF did.tag = "return" THEN did
  ELSE IF did.exc.type = "KeyError"
  THEN Ret(did.st, ResDetail("Error: Missing required field", did.exc.text))
  ELSE did

\* the exception handlers of execute (tools.py:423-434)
ExceptionHandlers(did) ==
  IF did.tag = "return" THEN did
  ELSE IF did.exc.type = "KeyError"
  THEN Ret(did.st, ResDetail("Error: Missing required field", did.exc.text))
  ELSE Ret(did.st, ResDetail("Error executing tool", did.exc.text))

\* ToolExecutor.execute
Execute(st, tool_name, tool_input, env, t) ==
  ExceptionHandlers(Dispatch(st, tool_name, tool_input, env, t))

----------------------------------------------------------------------------
(* Inputs the callers of execute() are taken to send *)

\* the "required" list of each tool's input schema (tools.py:168, 198, 251, 269, 288, 339)
RequiredFields(tool_name) ==
  CASE tool_name = "get_shipping_rates" -> << "to_city", "to_state", "to_zip", "weight_oz" >>
    [] tool_name = "validate_address" -> << "street", "city", "state", "zip" >>
    [] tool_name = "create_shipment" -> ShipmentFields
    [] OTHER -> << >>

RatesInput(z, w) == [to_city |-> "city", to_state |-> "CA", to_zip |-> z, weight_oz |-> w]

\* (zip, weight) pairs quoted: the same key twice, another zip, another weight,
\* and the same weight written as a float
QuoteParams == { << "90001", W32 >>, << "10001", W32 >>, << "90001", W16 >>, << "90001", W32f >> }

GetRatesWellFormed == { RatesInput(p[1], p[2]) : p \in QuoteParams }
GetRatesMalformed ==
  { EmptyDict, NotADict, [to_city |-> "city", to_state |-> "CA", to_zip |-> "90001"],
    RatesInput("90001", BadWeight) }

ShipInput(z, w, rid) ==
  [to_name |-> "name", to_street |-> "street", to_city |-> "city", to_state |-> "CA",
   to_zip |-> z, weight_oz |-> w, rate_id |-> rid]
WithOrder(params, order_id) ==
  [f \in DOMAIN params \cup {"order_id"} |-> IF f = "order_id" THEN order_id ELSE params[f]]

ShipParams == { << "90001", W32 >>, << "10001", W32 >>, << "90001", W16 >>, << "90001", W3205 >> }
ShipRateIds == RateIds \cup {"rate_invalid"}

CreateShipmentWellFormed ==
  { ShipInput(p[1], p[2], rid) : p \in ShipParams, rid \in ShipRateIds }
CreateShipmentWithOrder ==
  { WithOrder(ShipInput("90001", W32, "r2"), o) : o \in {"o1", "o3", "not-a-uuid"} }
CreateShipmentMalformed ==
  { EmptyDict, NotADict, ShipInput("90001", BadWeight, "r2"),
    [to_name |-> "name", to_street |-> "street", to_city |-> "city", to_state |-> "CA",
     to_zip |-> "90001", weight_oz |-> W32] }

\* a purchase: the provider's behaviour and the repository call that fails
PurchaseEnvs ==
  { << "ok", f >> : f \in DbFailures } \cup { << r, "none" >> : r \in RawPurchaseOutcomes \ {"ok"} }

ValidateInputs ==
  { [street |-> "street", city |-> "city", state |-> "CA", zip |-> "90001"],
    [street |-> "street", city |-> "city", state |-> "CA"], EmptyDict, NotADict }

TrackingInputs ==
  { [tracking_number |-> "1Z999"], [tracking_number |-> "XX001"], [order_id |-> "o1"],
    [order_id |-> "m1"], [order_id |-> "not-a-uuid"], [tracking_number |-> BadTracking],
    EmptyDict, NotADict }

UnfulfilledInputs ==
  { EmptyDict, [limit |-> 1], [search |-> "alice"], [search |-> "nonexistent-xyz"], NotADict }

BulkInputs ==
  { EmptyDict,
    [cheapest |-> TRUE, confirmed |-> FALSE],
    [cheapest |-> TRUE, confirmed |-> TRUE],
    [filter |-> [max_weight_oz |-> 16], cheapest |-> TRUE],
    [filter |-> [max_weight_oz |-> 16], cheapest |-> TRUE, confirmed |-> TRUE],
    [order_ids |-> << "o1", "o3" >>, carrier |-> "UPS", confirmed |-> TRUE],
    [order_ids |-> << "o1", "o3" >>, carrier |-> "UPS", service |-> "ground"],
    [order_ids |-> << "not-a-uuid" >>, confirmed |-> TRUE],
    [order_ids |-> << "m1" >>, confirmed |-> TRUE],
    [filter |-> [destination_state |-> "ca"], carrier |-> "DHL", confirmed |-> TRUE],
    NotADict }

\* per-order scenarios of a bulk call: o1/m1 follow a, the other orders b
BulkScen(a, b) == [o \in Orders |-> IF o \in {"o1", "m1"} THEN a ELSE b]
BulkEnvs ==
  { << BulkScen(a, "ok"), FALSE, "none" >> : a \in BulkScenarios }
    \cup { << BulkScen("ok", b), FALSE, "none" >> : b \in BulkScenarios }
    \cup { << BulkScen(a, a), FALSE, "none" >> : a \in {"quote_error", "no_rates", "buy_failed"} }
    \cup { << AllOk, TRUE, "none" >>, << AllOk, FALSE, "increment" >> }

----------------------------------------------------------------------------
(* State after construction *)

\* labels_this_month of the customer row the session was opened with
InitialDbLabels == 42

NoCall == [tag |-> "none", res |-> NoRes]
NoInner == [tag |-> "none", exc |-> NoExc]
NoResponse == [stop_reason |-> "none", content |-> << >>]
NoHist ==
  [issued |-> {}, evicted |-> {}, replaced |-> {}, previews |-> 0, quoted |-> << >>,
   scen |-> AllOk, resets |-> 0]

InitExecutor ==
  /\ rate_cache = EmptyDict
  /\ rate_id_to_cache_key = EmptyDict
  /\ last_rates = EmptyDict
  /\ use_db \in BOOLEAN
  /\ labels_used = IF use_db THEN InitialDbLabels ELSE DefaultLabelsUsed
  /\ db_labels = InitialDbLabels
  /\ db_shipments = << >>
  /\ order_status = [o \in DbOrders |-> "unfulfilled"]
  /\ mock_shipments = {}
  /\ purchases = 0
  /\ now = 0
  /\ ticks = 0
  /\ calls = 0
  /\ last_tool = ""
  /\ last_input = EmptyDict
  /\ outcome = NoCall
  /\ inner = NoInner
  /\ hist = NoHist

InitAgent ==
  /\ messages = << >>
  /\ pc = "idle"
  /\ response = NoResponse
  /\ block_i = 0
  /\ tool_results = << >>
  /\ chat_result = NoRes
  /\ model_calls = 0
  /\ tools_run = 0
  /\ failed_at = << >>
  /\ turns = 0
  /\ conv_messages = << >>

\* the second session starts like the first: empty cache, empty history
NoPeer ==
  [rate_cache |-> EmptyDict, idx |-> EmptyDict, last_rates |-> EmptyDict, messages |-> << >>,
   calls |-> 0]

\* the REST endpoint's customer is one label short of the plan limit and no
\* request has arrived
RestRequests == 1..MaxRequests
NoRest ==
  [pc |-> [r \in RestRequests |-> "new"], seen |-> [r \in RestRequests |-> 0],
   labels_this_month |-> LabelsLimit - 1, purchases |-> 0]

LoopRequests == 1..MaxLoopRequests

NoLoop ==
  [pc |-> [r \in LoopRequests |-> "none"], running |-> 0,
   model_calls |-> [r \in LoopRequests |-> 0], status |-> [r \in LoopRequests |-> 0]]

NoStream == [pc |-> "receive", script |-> << >>, log |-> << >>, handled |-> 0]

NoRequest == [endpoint |-> "none", credentials |-> "none", token_invalid |-> 0,
              status |-> 0, customer |-> "none"]

NoAuth == [token_invalid |-> 0, uninstalled |-> FALSE, requests |-> 0, last |-> NoRequest]

InitSide ==
  /\ peer = NoPeer
  /\ rest_api = NoRest
  /\ loop = NoLoop
  /\ stream = NoStream
  /\ auth = NoAuth

Init == InitExecutor /\ InitAgent /\ InitSide

----------------------------------------------------------------------------
(* One execute() call *)

RateIdsOf(rates) == { rates[i].rate_id : i \in 1..Len(rates) }

\* the history after a call: which rate ids a quote issued, which it evicted by
\* replacing their entry, the last quote in the provider's order, how many
\* bulk previews ran, and what the collaborators did to each order of the last
\* bulk call
HistAfter(st, tool_name, tool_input, env, out) ==
  IF tool_name = "get_shipping_rates" /\ out.res.rates # << >>
  THEN LET cache_key == RateCacheKey(tool_input.to_zip, tool_input.weight_oz)
           old == IF cache_key \in DOMAIN st.rate_cache
                  THEN RateIdsOf(st.rate_cache[cache_key].rates) ELSE {}
           new == RateIdsOf(env.rate.rates)
       IN [hist EXCEPT !.issued = @ \cup new,
                       !.evicted = (@ \cup old) \ new,
                       !.replaced = @ \cup old,
                       !.quoted = env.rate.rates]
  ELSE IF tool_name = "bulk_ship_orders"
  THEN [hist EXCEPT !.previews = IF out.res.kind = "Bulk Shipping Preview" THEN @ + 1 ELSE @,
                    !.scen = env.scen]
  ELSE hist

\* what one execute() call leaves behind: did is what the tool method did,
\* out what execute() made of it
CallEffect(tool_name, tool_input, env, st, did, out) ==
     /\ rate_cache' = out.st.rate_cache
     /\ rate_id_to_cache_key' = out.st.idx
     /\ last_rates' = out.st.last_rates
     /\ labels_used' = out.st.labels_used
     /\ db_labels' = out.st.db_labels
     /\ db_shipments' = out.st.db_shipments
     /\ order_status' = out.st.order_status
     /\ mock_shipments' = out.st.mock_shipments
     /\ purchases' = out.st.purchases
     /\ use_db' = use_db
     /\ calls' = calls + 1
     /\ last_tool' = tool_name
     /\ last_input' = tool_input
     /\ outcome' = [tag |-> out.tag, res |-> out.res]
     /\ inner' = [tag |-> did.tag, exc |-> did.exc]
     /\ hist' = HistAfter(st, tool_name, tool_input, env, out)

\* execute(tool_name, tool_input) with the collaborators behaving as env
Call(tool_name, tool_input, env) ==
  CallEffect(tool_name, tool_input, env, ExecState,
             Dispatch(ExecState, tool_name, tool_input, env, now),
             Execute(ExecState, tool_name, tool_input, env, now))

\* get_shipping_rates called with one of inputs, the provider answering one of raws
GetRatesOn(inputs, raws) ==
  \E params \in inputs, raw \in raws :
     /\ (IsDict(params) /\ "weight_oz" \in DOMAIN params /\ ~params.weight_oz.isnum)
          => raw.tag # "ok"
     /\ Call("get_shipping_rates", params, [QuietEnv EXCEPT !.rate = raw])

\* create_shipment called with one of inputs
CreateShipmentOn(inputs, envs) ==
  \E params \in inputs, e \in envs :
     Call("create_shipment", params, [QuietEnv EXCEPT !.purchase = e[1], !.db_fail = e[2]])

----------------------------------------------------------------------------
(* Spec: any caller of execute(), any of the tools, any input *)

CanCall == pc = "idle" /\ calls < MaxCalls

GetRates ==
  /\ CanCall
  /\ GetRatesOn({RatesInput("90001", W32)} \cup GetRatesMalformed, RawRateOutcomes)
  /\ UNCHANGED <<env_vars, agent_vars, side_vars>>

ValidateAddress ==
  /\ CanCall
  /\ \E params \in ValidateInputs, raw \in RawSimpleOutcomes :
       Call("validate_address", params, [QuietEnv EXCEPT !.simple = raw])
  /\ UNCHANGED <<env_vars, agent_vars, side_vars>>

CreateShipment ==
  /\ CanCall
  /\ CreateShipmentOn({ShipInput("90001", W32, "r2"), ShipInput("10001", W16, "r1"),
                       ShipInput("90001", W32, "rate_invalid")}
                        \cup CreateShipmentWithOrder \cup CreateShipmentMalformed,
                      PurchaseEnvs)
  /\ UNCHANGED <<env_vars, agent_vars, side_vars>>

GetTrackingStatus ==
  /\ CanCall
  /\ \E params \in TrackingInputs, raw \in RawSimpleOutcomes, db_fail \in BOOLEAN :
       /\ db_fail => raw = "ok"
       /\ Call("get_tracking_status", params, [QuietEnv EXCEPT !.simple = raw, !.flag = db_fail])
  /\ UNCHANGED <<env_vars, agent_vars, side_vars>>

GetUnfulfilledOrders ==
  /\ CanCall
  /\ \E params \in UnfulfilledInputs, db_fail \in BOOLEAN :
       Call("get_unfulfilled_orders", params, [QuietEnv EXCEPT !.flag = db_fail])
  /\ UNCHANGED <<env_vars, agent_vars, side_vars>>

BulkShipOrders ==
  /\ CanCall
  /\ \E params \in BulkInputs, e \in BulkEnvs :
       Call("bulk_ship_orders", params,
            [QuietEnv EXCEPT !.scen = e[1], !.flag = e[2], !.db_fail = e[3]])
  /\ UNCHANGED <<env_vars, agent_vars, side_vars>>

UnknownTool ==
  /\ CanCall
  /\ Call("unknown_tool", [param |-> "value"], QuietEnv)
  /\ UNCHANGED <<env_vars, agent_vars, side_vars>>

Next ==
  \/ GetRates
  \/ ValidateAddress
  \/ CreateShipment
  \/ GetTrackingStatus
  \/ GetUnfulfilledOrders
  \/ BulkShipOrders
  \/ UnknownTool

Spec == Init /\ [][Next]_vars

----------------------------------------------------------------------------
(* CacheSpec: a session that quotes rates and buys labels *)

CanCallCache == pc = "idle" /\ calls < MaxCacheCalls

QuoteRates ==
  /\ CanCallCache
  /\ GetRatesOn(GetRatesWellFormed, RawRateOutcomes)
  /\ UNCHANGED <<env_vars, agent_vars, side_vars>>

BuyLabel ==
  /\ CanCallCache
  /\ CreateShipmentOn(CreateShipmentWellFormed, {<< "ok", "none" >>, << "buy_api_error", "none" >>})
  /\ UNCHANGED <<env_vars, agent_vars, side_vars>>

CacheNext ==
  \/ QuoteRates
  \/ BuyLabel

CacheSpec == Init /\ [][CacheNext]_vars

----------------------------------------------------------------------------
(* ClockSpec: one quote, then purchases while time passes *)

CanCallClock == pc = "idle" /\ calls < MaxClockCalls

QuoteOnce ==
  /\ CanCallClock
  /\ calls = 0
  /\ GetRatesOn({RatesInput("90001", W32)}, RawRateOutcomes)
  /\ UNCHANGED <<env_vars, agent_vars, side_vars>>

BuyLater ==
  /\ CanCallClock
  /\ calls > 0
  /\ CreateShipmentOn(CreateShipmentWellFormed, {<< "ok", "none" >>, << "buy_api_error", "none" >>})
  /\ UNCHANGED <<env_vars, agent_vars, side_vars>>

\* time passes between calls: up to the expiry time exactly, or just beyond it
Tick ==
  /\ pc = "idle"
  /\ ticks < MaxTicks
  /\ \E dt \in {RATE_CACHE_EXPIRY_SECONDS, RATE_CACHE_EXPIRY_SECONDS + 1} : now' = now + dt
  /\ ticks' = ticks + 1
  /\ UNCHANGED <<exec_vars, call_vars, agent_vars, side_vars>>

ClockNext ==
  \/ QuoteOnce
  \/ BuyLater
  \/ Tick

ClockSpec == Init /\ [][ClockNext]_vars

----------------------------------------------------------------------------
(* ShippingAgent: history, token estimate, summarization *)

\* a message whose content is a string of the given length
MsgStr(role, text, chars) ==
  [role |-> role, kind |-> "str", text |-> text, chars |-> chars, blocks |-> << >>]
\* a message whose content is a list of content blocks
MsgList(role, blocks) ==
  [role |-> role, kind |-> "list", text |-> "", chars |-> 0, blocks |-> blocks]

TextBlock(text) ==
  [type |-> "text", text |-> text, id |-> "", name |-> "", input |-> EmptyDict, content |-> NoRes]
ToolUse(id, name, input) ==
  [type |-> "tool_use", text |-> "", id |-> id, name |-> name, input |-> input, content |-> NoRes]
ToolResult(tool_use_id, content) ==
  [type |-> "tool_result", text |-> "", id |-> tool_use_id, name |-> "", input |-> EmptyDict,
   content |-> content]

\* len() of the texts of the model: one user message is long enough to pass the
\* summarization threshold on its own
TextChars(text) == IF text = "huge" THEN 240000 ELSE 40
\* len(str(block)) of a content block
BlockChars(block) == IF block.type = "text" THEN 40 + TextChars(block.text) ELSE 160
SystemPromptChars == 800

\* ShippingAgent._estimate_tokens
EstimateTokens(chars) == chars \div CHARS_PER_TOKEN

RECURSIVE SumBlockTokens(_)
SumBlockTokens(blocks) ==
  IF blocks = << >> THEN 0
  ELSE EstimateTokens(BlockChars(Head(blocks))) + SumBlockTokens(Tail(blocks))

\* ShippingAgent._estimate_message_tokens
EstimateMessageTokens(msg) ==
  IF msg.kind = "str" THEN EstimateTokens(msg.chars) ELSE SumBlockTokens(msg.blocks)

RECURSIVE SumMessageTokens(_)
SumMessageTokens(msgs) ==
  IF msgs = << >> THEN 0
  ELSE EstimateMessageTokens(Head(msgs)) + SumMessageTokens(Tail(msgs))

\* ShippingAgent._estimate_conversation_tokens
EstimateConversationTokens(msgs) == EstimateTokens(SystemPromptChars) + SumMessageTokens(msgs)

\* characters one old message adds to the summary (agent.py:151-167)
SummaryLineChars(msg) ==
  IF msg.kind = "str" THEN 15 + (IF msg.chars > 200 THEN 203 ELSE msg.chars)
  ELSE 30 * Len(msg.blocks)

RECURSIVE SummaryChars(_)
SummaryChars(msgs) ==
  IF msgs = << >> THEN 54 ELSE SummaryLineChars(Head(msgs)) + 1 + SummaryChars(Tail(msgs))

\* _summarize_old_messages that already rewrites a history of 2 * KEEP_RECENT_TURNS
SummarizeFromTen(msgs) ==
  IF Len(msgs) < KEEP_RECENT_TURNS * 2 THEN msgs
  ELSE << MsgStr("user", "[Conversation context]",
                 SummaryChars(SubSeq(msgs, 1, Len(msgs) - (KEEP_RECENT_TURNS * 2)))),
          MsgStr("assistant", "I understand. Let me continue helping you with your shipping needs.", 67) >>
         \o SubSeq(msgs, Len(msgs) - (KEEP_RECENT_TURNS * 2) + 1, Len(msgs))

\* ShippingAgent._summarize_old_messages
SummarizeOldMessages(msgs) ==
  IF Len(msgs) <= KEEP_RECENT_TURNS * 2 THEN msgs
  ELSE LET recent_start == Len(msgs) - (KEEP_RECENT_TURNS * 2)
           old_messages == SubSeq(msgs, 1, recent_start)
           recent_messages == SubSeq(msgs, recent_start + 1, Len(msgs))
       IN << MsgStr("user", "[Conversation context]", SummaryChars(old_messages)),
             MsgStr("assistant", "I understand. Let me continue helping you with your shipping needs.", 67) >>
            \o recent_messages

\* _maybe_summarize that does not look at the token estimate
SummarizeAlways(msgs) == SummarizeOldMessages(msgs)

\* ShippingAgent._maybe_summarize
MaybeSummarize(msgs) ==
  IF EstimateConversationTokens(msgs) > SUMMARIZE_THRESHOLD_TOKENS
  THEN SummarizeOldMessages(msgs) ELSE msgs

----------------------------------------------------------------------------
(* ShippingAgent._real_chat *)

UserTexts == {"hi", "huge"}

\* what the model API may answer: stop_reason and content blocks
Response(stop_reason, content) == [stop_reason |-> stop_reason, content |-> content]

ToolResponses ==
  { Response("tool_use", << TextBlock("a"),
                            ToolUse("tu1", "get_shipping_rates", RatesInput("90001", W32)) >>),
    Response("tool_use", << ToolUse("tu1", "get_shipping_rates", RatesInput("90001", W32)),
                            ToolUse("tu2", "create_shipment", ShipInput("90001", W32, "r2")) >>),
    Response("tool_use", << ToolUse("tu1", "create_shipment", EmptyDict) >>) }

FinalResponses ==
  { Response("end_turn", << TextBlock("a") >>),
    Response("end_turn", << TextBlock("a"), TextBlock("b") >>),
    \* cut off by max_tokens after a tool_use block was emitted
    Response("max_tokens", << TextBlock("a"),
                              ToolUse("tu1", "get_shipping_rates", RatesInput("90001", W32)) >>) }

\* exceptions client.messages.create may raise, in the order of the handlers
ModelFailures == {"RateLimitError", "APIStatusError", "APITimeoutError", "APIConnectionError",
                  "Exception"}

\* the string each handler returns (agent.py:369-380, 441-443)
Apology(failure) ==
  CASE failure = "RateLimitError" ->
         Res("I'm currently experiencing high demand. Please try again in a moment.")
    [] failure = "APIStatusError" -> ResDetail("I encountered an API error", RawModelText)
    [] failure = "APITimeoutError" ->
         Res("The request timed out. Please try again with a simpler request.")
    [] failure = "APIConnectionError" ->
         Res("I'm having trouble connecting to the AI service. Please check your connection.")
    [] OTHER -> ResDetail("An unexpected error occurred", RawModelText)

\* "\n".join(text_parts) of the blocks that have a text attribute
RECURSIVE TextParts(_)
TextParts(content) ==
  IF content = << >> THEN << >>
  ELSE (IF Head(content).type = "text" THEN << Head(content).text >> ELSE << >>)
         \o TextParts(Tail(content))

RECURSIVE JoinLines(_)
\* the pieces of the joined string: the parts with "\n" between consecutive parts
JoinLines(parts) ==
  IF parts = << >> THEN << >>
  ELSE IF Len(parts) = 1 THEN parts
  ELSE << Head(parts), "\n" >> \o JoinLines(Tail(parts))

FinalAnswer(content) == [Res("final") EXCEPT !.text = JoinLines(TextParts(content))]


RECURSIVE NextToolUse(_, _)

\* a dispatch loop that stops after the first tool_use block
NextToolUseFirstOnly(content, i) ==
  IF i > Len(content) THEN Len(content) + 1
  ELSE IF content[i].type = "tool_use"
  THEN (IF \E j \in 1..(i - 1) : content[j].type = "tool_use" THEN Len(content) + 1 ELSE i)
  ELSE NextToolUse(content, i + 1)

\* index of the first tool_use block at or after position i, Len + 1 if none
NextToolUse(content, i) ==
  IF i > Len(content) THEN Len(content) + 1
  ELSE IF content[i].type = "tool_use" THEN i
  ELSE NextToolUse(content, i + 1)

\* the collaborators during a tool call of the loop: all well, the provider
\* failing, the database failing
AgentEnvs ==
  { [QuietEnv EXCEPT !.rate = [tag |-> "ok", rates |-> BulkQuote]],
    [QuietEnv EXCEPT !.rate = [tag |-> "api_error", rates |-> << >>],
                     !.purchase = "buy_api_error"],
    [QuietEnv EXCEPT !.rate = [tag |-> "ok", rates |-> BulkQuote], !.db_fail = "create"] }

\* chat(user_message), up to the first model call (agent.py:349-356)
StartTurn ==
  /\ pc = "idle"
  /\ turns < MaxTurns
  /\ \E text \in UserTexts :
       messages' = MaybeSummarize(Append(messages, MsgStr("user", text, TextChars(text))))
  /\ pc' = "awaiting_model"
  /\ turns' = turns + 1
  /\ chat_result' = NoRes
  /\ failed_at' = << >>
  /\ response' = NoResponse
  /\ block_i' = 0
  /\ tool_results' = << >>
  /\ UNCHANGED <<model_calls, tools_run, conv_messages, exec_vars, call_vars, env_vars, side_vars>>

\* client.messages.create returned resp (agent.py:383-439); persist_fail says
\* whether conversation_repo.set_messages raises
ModelResponds(resp, persist_fail) ==
  /\ pc = "awaiting_model"
  /\ model_calls < MaxModelCalls
  /\ model_calls' = model_calls + 1
  /\ messages' = Append(messages, MsgList("assistant", resp.content))
  /\ IF resp.stop_reason = "tool_use"
     THEN /\ response' = resp
          /\ block_i' = NextToolUse(resp.content, 1)
          /\ tool_results' = << >>
          /\ pc' = "executing_tools"
          /\ UNCHANGED <<chat_result, conv_messages>>
     ELSE /\ response' = resp
          /\ pc' = "idle"
          /\ IF use_db /\ persist_fail
             THEN /\ chat_result' = ResDetail("An unexpected error occurred", RawDbText)
                  /\ UNCHANGED conv_messages
             ELSE /\ chat_result' = FinalAnswer(resp.content)
                  /\ conv_messages' = IF use_db THEN messages' ELSE conv_messages
          /\ UNCHANGED <<block_i, tool_results>>
  /\ UNCHANGED <<tools_run, failed_at, turns, exec_vars, call_vars, env_vars, side_vars>>

ModelRequestsTools ==
  \E resp \in ToolResponses : ModelResponds(resp, FALSE)

ModelAnswers ==
  \E resp \in FinalResponses, persist_fail \in BOOLEAN : ModelResponds(resp, persist_fail)

\* a failed model call that is tried again within the turn
ModelCallFailsRetry ==
  /\ pc = "awaiting_model"
  /\ model_calls < MaxModelCalls
  /\ model_calls' = model_calls + 1
  /\ \E failure \in ModelFailures : chat_result' = Apology(failure)
  /\ pc' = "awaiting_model"
  /\ failed_at' = << model_calls', tools_run >>
  /\ UNCHANGED <<messages, response, block_i, tool_results, tools_run, turns, conv_messages,
                 exec_vars, call_vars, env_vars, side_vars>>

\* client.messages.create raised (agent.py:369-380 and 441-443)
ModelCallFails ==
  /\ pc = "awaiting_model"
  /\ model_calls < MaxModelCalls
  /\ model_calls' = model_calls + 1
  /\ \E failure \in ModelFailures : chat_result' = Apology(failure)
  /\ pc' = "idle"
  /\ failed_at' = << model_calls', tools_run >>
  /\ UNCHANGED <<messages, response, block_i, tool_results, tools_run, turns, conv_messages,
                 exec_vars, call_vars, env_vars, side_vars>>

\* one iteration of the dispatch loop on a tool_use block (agent.py:389-404)
ExecuteBlock ==
  /\ pc = "executing_tools"
  /\ block_i <= Len(response.content)
  /\ LET block == response.content[block_i] IN
       /\ \E env \in AgentEnvs : Call(block.name, block.input, env)
       /\ tool_results' =
            Append(tool_results,
                   ToolResult(block.id,
                              IF outcome'.tag = "return" THEN outcome'.res
                              ELSE ResDetail("Error: Tool failed", inner'.exc.text)))
  /\ block_i' = NextToolUse(response.content, block_i + 1)
  /\ tools_run' = tools_run + 1
  /\ UNCHANGED <<messages, pc, response, chat_result, model_calls, failed_at, turns,
                 conv_messages, env_vars, side_vars>>

\* the tool results go back as one user message (agent.py:406)
AppendToolResults ==
  /\ pc = "executing_tools"
  /\ block_i > Len(response.content)
  /\ messages' = Append(messages, MsgList("user", tool_results))
  /\ pc' = "awaiting_model"
  /\ UNCHANGED <<response, block_i, tool_results, chat_result, model_calls, tools_run,
                 failed_at, turns, conv_messages, exec_vars, call_vars, env_vars, side_vars>>

AgentNext ==
  \/ StartTurn
  \/ ModelRequestsTools
  \/ ModelAnswers
  \/ ModelCallFails
  \/ ExecuteBlock
  \/ AppendToolResults

AgentSpec == Init /\ [][AgentNext]_vars

----------------------------------------------------------------------------
(* SummarySpec: an agent built on a stored conversation (agent.py:68-78), then *)
(* turns without tools                                                        *)

\* a stored conversation of n messages, user and assistant taking turns; big
\* says whether its first message is a long one
StoredHistory(n, big) ==
  [i \in 1..n |->
     IF i % 2 = 1
     THEN MsgStr("user", IF big /\ i = 1 THEN "huge" ELSE "hi",
                 TextChars(IF big /\ i = 1 THEN "huge" ELSE "hi"))
     ELSE MsgStr("assistant", "ok", TextChars("ok"))]

StoredHistories == { StoredHistory(n, big) : n \in 0..MaxStored, big \in BOOLEAN }

\* ShippingAgent.__init__ with a database: the messages of the customer's
\* conversation are loaded
InitLoaded ==
  /\ InitExecutor
  /\ InitSide
  /\ messages \in (IF use_db THEN StoredHistories ELSE {<< >>})
  /\ conv_messages = messages
  /\ pc = "idle"
  /\ response = NoResponse
  /\ block_i = 0
  /\ tool_results = << >>
  /\ chat_result = NoRes
  /\ model_calls = 0
  /\ tools_run = 0
  /\ failed_at = << >>
  /\ turns = 0

SummaryNext ==
  \/ StartTurn
  \/ ModelAnswers
  \/ ModelCallFails

SummarySpec == InitLoaded /\ [][SummaryNext]_vars

----------------------------------------------------------------------------
(* ResetSpec: quotes, purchases and turns of one session, and its reset *)

ResetQuote ==
  /\ CanCall
  /\ GetRatesOn({RatesInput("90001", W32)},
                {[tag |-> "ok", rates |-> BulkQuote], [tag |-> "api_error", rates |-> << >>]})
  /\ UNCHANGED <<env_vars, agent_vars, side_vars>>

ResetShip ==
  /\ CanCall
  /\ CreateShipmentOn({ShipInput("90001", W32, "r2"), ShipInput("90001", W32, "r3")},
                      {<< "ok", "none" >>})
  /\ UNCHANGED <<env_vars, agent_vars, side_vars>>

\* ShippingAgent.reset (agent.py:445-452), reached from POST /reset (api/chat.py:93-102)
Reset ==
  /\ pc = "idle"
  /\ hist.resets < MaxResets
  /\ messages' = << >>
  /\ conv_messages' = IF use_db THEN << >> ELSE conv_messages
  /\ hist' = [hist EXCEPT !.resets = @ + 1]
  /\ UNCHANGED <<pc, response, block_i, tool_results, chat_result, model_calls, tools_run,
                 failed_at, turns, calls, last_tool, last_input, outcome, inner,
                 exec_vars, env_vars, side_vars>>

ResetNext ==
  \/ ResetQuote
  \/ ResetShip
  \/ StartTurn
  \/ ModelAnswers
  \/ Reset

ResetSpec == Init /\ [][ResetNext]_vars

----------------------------------------------------------------------------
(* SessionSpec: two sessions of one process, each with its own ShippingAgent *)
(* (api/chat.py:52-58), interleaved                                          *)

\* the executor of the second session: its own caches, the module globals and
\* the database of the process
PeerState ==
  [ExecState EXCEPT !.rate_cache = peer.rate_cache, !.idx = peer.idx,
                    !.last_rates = peer.last_rates]

\* the second session after one of its execute() calls left its executor as st
PeerAfter(st) ==
  [peer EXCEPT !.rate_cache = st.rate_cache, !.idx = st.idx, !.last_rates = st.last_rates,
               !.calls = @ + 1]

CanCallSession == pc = "idle" /\ calls < MaxSessionCalls

SessionGetRates ==
  /\ CanCallSession
  /\ GetRatesOn({RatesInput("90001", W32), RatesInput("10001", W16)},
                {[tag |-> "ok", rates |-> BulkQuote], [tag |-> "api_error", rates |-> << >>]})
  /\ UNCHANGED <<env_vars, agent_vars, side_vars>>

SessionBulkShip ==
  /\ CanCallSession
  /\ \E params \in {EmptyDict, [order_ids |-> << "m1" >>, confirmed |-> TRUE],
                    [order_ids |-> << "o1" >>, confirmed |-> TRUE]} :
       Call("bulk_ship_orders", params, QuietEnv)
  /\ UNCHANGED <<env_vars, agent_vars, side_vars>>

SessionTrack ==
  /\ CanCallSession
  /\ \E params \in {[order_id |-> "m1"], [order_id |-> "o1"]} :
       Call("get_tracking_status", params, QuietEnv)
  /\ UNCHANGED <<env_vars, agent_vars, side_vars>>

\* the second session asks for rates
PeerGetRates ==
  /\ peer.calls < MaxSessionCalls
  /\ \E params \in {RatesInput("90001", W32), RatesInput("10001", W16)} :
       peer' = PeerAfter(Execute(PeerState, "get_shipping_rates", params,
                                 [QuietEnv EXCEPT !.rate = [tag |-> "ok", rates |-> BulkQuote]],
                                 now).st)
  /\ UNCHANGED <<exec_vars, call_vars, env_vars, agent_vars, rest_api, ext_vars>>

\* the second session receives a user message
PeerSends ==
  /\ Len(peer.messages) < MaxSessionCalls
  /\ peer' = [peer EXCEPT !.messages = Append(@, MsgStr("user", "hi", TextChars("hi")))]
  /\ UNCHANGED <<exec_vars, call_vars, env_vars, agent_vars, rest_api, ext_vars>>

SessionNext ==
  \/ SessionGetRates
  \/ SessionBulkShip
  \/ SessionTrack
  \/ StartTurn
  \/ ModelAnswers
  \/ PeerGetRates
  \/ PeerSends

SessionSpec == Init /\ [][SessionNext]_vars

----------------------------------------------------------------------------
(* RestSpec: POST /api/shipments (api/shipping.py:193-322), several requests   *)
(* of one customer in flight                                                  *)

\* get_current_customer (api/deps.py:25-65): the request loads the customer row
RestLoad(r) ==
  /\ rest_api.pc[r] = "new"
  /\ rest_api' = [rest_api EXCEPT !.pc[r] = "loaded", !.seen[r] = rest_api.labels_this_month]
  /\ UNCHANGED <<exec_vars, call_vars, env_vars, agent_vars, peer, ext_vars>>

\* the limit check on the loaded row fails: 403 (api/shipping.py:242-249)
RestReject(r) ==
  /\ rest_api.pc[r] = "loaded"
  /\ rest_api.seen[r] >= LabelsLimit
  /\ rest_api' = [rest_api EXCEPT !.pc[r] = "rejected"]
  /\ UNCHANGED <<exec_vars, call_vars, env_vars, agent_vars, peer, ext_vars>>

\* the limit check passes and client.create_shipment buys the label, or
\* raises: 502 (api/shipping.py:242-283)
RestBuy(r) ==
  /\ rest_api.pc[r] = "loaded"
  /\ rest_api.seen[r] < LabelsLimit
  /\ \E raw \in {"ok", "buy_api_error"} :
       rest_api' = IF ClientCreateShipment(raw).tag = "raise"
                   THEN [rest_api EXCEPT !.pc[r] = "failed"]
                   ELSE [rest_api EXCEPT !.pc[r] = "bought", !.purchases = @ + 1]
  /\ UNCHANGED <<exec_vars, call_vars, env_vars, agent_vars, peer, ext_vars>>

\* customer_repo.increment_label_count (api/shipping.py:310, repository.py:54-60)
RestCount(r) ==
  /\ rest_api.pc[r] = "bought"
  /\ rest_api' = [rest_api EXCEPT !.pc[r] = "done", !.labels_this_month = @ + 1]
  /\ UNCHANGED <<exec_vars, call_vars, env_vars, agent_vars, peer, ext_vars>>

RestNext ==
  \/ \E r \in RestRequests : RestLoad(r)
  \/ \E r \in RestRequests : RestReject(r)
  \/ \E r \in RestRequests : RestBuy(r)
  \/ \E r \in RestRequests : RestCount(r)

RestSpec == Init /\ [][RestNext]_vars

----------------------------------------------------------------------------
(* LoopSpec: POST /api/chat requests of different sessions on the event loop *)
(* of the server (api/chat.py:30-62). The endpoint is a coroutine; from its  *)
(* first line to its return it awaits nothing, and ShippingAgent.chat, the   *)
(* model call and the shipping-API calls are synchronous calls made in it.   *)

\* the server receives the request and schedules the endpoint on the event loop
LoopArrive(r) ==
  /\ loop.pc[r] = "none"
  /\ loop' = [loop EXCEPT !.pc[r] = "queued"]
  /\ UNCHANGED <<exec_vars, call_vars, env_vars, agent_vars, peer, rest_api, stream, auth>>

\* the event loop, running no other coroutine, runs chat(): an empty message is
\* refused (api/chat.py:40-46); otherwise agent.chat() is entered and blocks in
\* client.messages.create (agent.py:359-368)
LoopRun(r) ==
  /\ loop.pc[r] = "queued"
  /\ loop.running = 0
  /\ \E message \in {"", "ship it"} :
       loop' = IF message = ""
                 THEN [loop EXCEPT !.pc[r] = "done", !.status[r] = 400]
                 ELSE [loop EXCEPT !.pc[r] = "model", !.running = r, !.model_calls[r] = 1]
  /\ UNCHANGED <<exec_vars, call_vars, env_vars, agent_vars, peer, rest_api, stream, auth>>

\* messages.create returns or raises: a caught error and a final answer both end
\* chat() with a text (agent.py:369-380, 412-441); a tool_use response enters
\* execute(), which blocks in the shipping API
LoopModelReturns(r) ==
  /\ loop.pc[r] = "model"
  /\ \E stop \in {"end_turn", "tool_use", "error"} :
       /\ stop = "tool_use" => loop.model_calls[r] < MaxLoopCalls
       /\ loop' = IF stop = "tool_use"
                    THEN [loop EXCEPT !.pc[r] = "shipping"]
                    ELSE [loop EXCEPT !.pc[r] = "done", !.status[r] = 200, !.running = 0]
  /\ UNCHANGED <<exec_vars, call_vars, env_vars, agent_vars, peer, rest_api, stream, auth>>

\* the shipping API answers; the loop of _real_chat calls the model again
LoopShippingReturns(r) ==
  /\ loop.pc[r] = "shipping"
  /\ loop' = [loop EXCEPT !.pc[r] = "model", !.model_calls[r] = @ + 1]
  /\ UNCHANGED <<exec_vars, call_vars, env_vars, agent_vars, peer, rest_api, stream, auth>>

LoopNext ==
  \E r \in LoopRequests :
    LoopArrive(r) \/ LoopRun(r) \/ LoopModelReturns(r) \/ LoopShippingReturns(r)

LoopSpec == Init /\ [][LoopNext]_vars

----------------------------------------------------------------------------
(* StreamSpec: the WebSocket endpoint /chat/stream (api/chat.py:152-306), one *)
(* connection. stream.log holds what was sent for the message being handled,  *)
(* and a "dispatch" entry where ToolExecutor.execute ran.                     *)

Event(type, tool) == [type |-> type, tool |-> tool]

\* user messages, with the terms of the keyword tests they contain
StreamMessages ==
  { [text |-> "", terms |-> {}],
    [text |-> "hello", terms |-> {}],
    [text |-> "get rates to LA", terms |-> {"rate"}],
    [text |-> "validate the address", terms |-> {"valid"}],
    [text |-> "ship it", terms |-> {"ship", "ship it"}],
    [text |-> "track 1Z999999999", terms |-> {"track"}],
    [text |-> "ship all orders", terms |-> {"ship", "ship all"}] }

\* the tool the endpoint announces for a message in mock mode (api/chat.py:208-216)
AnnouncedTool(terms) ==
  IF terms \cap {"rate", "ship", "track", "valid"} = {} THEN "none"
  ELSE IF "valid" \in terms THEN "validate_address"
  ELSE IF "ship" \in terms THEN "create_shipment"
  ELSE IF "track" \in terms THEN "get_tracking_status"
  ELSE "get_shipping_rates"

\* the tool _mock_chat executes for a message (agent.py:232-340)
MockDispatchedTool(terms, has_rates) ==
  IF "rate" \in terms THEN "get_shipping_rates"
  ELSE IF "valid" \in terms THEN "validate_address"
  ELSE IF "ship it" \in terms THEN (IF has_rates THEN "create_shipment" ELSE "none")
  ELSE IF "track" \in terms THEN "get_tracking_status"
  ELSE IF "ship all" \in terms THEN "bulk_ship_orders"
  ELSE "none"

Chunks(n) == [i \in 1..n |-> Event("chunk", "")]

\* the mock-mode branch, in the order of the code (api/chat.py:199-250)
MockScript(terms, has_rates, n) ==
  <<Event("status", "")>>
  \o (IF AnnouncedTool(terms) = "none" THEN << >>
      ELSE <<Event("tool_start", AnnouncedTool(terms)),
             Event("tool_complete", AnnouncedTool(terms))>>)
  \o (IF MockDispatchedTool(terms, has_rates) = "none" THEN << >>
      ELSE <<Event("dispatch", MockDispatchedTool(terms, has_rates))>>)
  \o <<Event("status", "")>> \o Chunks(n) \o <<Event("complete", "")>>

\* the events of ShippingAgent.chat_stream for one message
ChatStream(n) ==
  { Chunks(n) \o <<Event("complete", "")>>,
    <<Event("error", "")>>,
    <<Event("tool_start", "get_shipping_rates"), Event("dispatch", "get_shipping_rates"),
      Event("tool_complete", "get_shipping_rates")>> \o Chunks(n) \o <<Event("complete", "")>> }

\* the branch of a live model (api/chat.py:251-287): each event is forwarded
RealScripts(n) ==
  { <<Event("status", ""), Event("status", "")>> \o events : events \in ChatStream(n) }

\* receive_text returns a message (api/chat.py:165-178): an empty one is answered by
\* an error event; otherwise the branch of the session's agent is entered
StreamReceive ==
  /\ stream.pc = "receive"
  /\ stream.handled < MaxStreamMessages
  /\ \E message \in StreamMessages, mock_mode \in BOOLEAN, has_rates \in BOOLEAN,
        n \in 1..MaxChunks :
       \E script \in IF message.text = "" THEN {<<Event("error", "")>>}
                     ELSE IF mock_mode THEN {MockScript(message.terms, has_rates, n)}
                     ELSE RealScripts(n) :
         stream' = [pc |-> "send", script |-> script, log |-> << >>,
                    handled |-> stream.handled + 1]
  /\ UNCHANGED <<exec_vars, call_vars, env_vars, agent_vars, peer, rest_api, loop, auth>>

\* the next step of the branch: one send_json, or the tool call inside the agent
StreamSend ==
  /\ stream.pc = "send"
  /\ stream' = [stream EXCEPT !.log = Append(@, Head(stream.script)),
                              !.script = Tail(@),
                              !.pc = IF Len(stream.script) = 1 THEN "receive" ELSE "send"]
  /\ UNCHANGED <<exec_vars, call_vars, env_vars, agent_vars, peer, rest_api, loop, auth>>

StreamNext == StreamReceive \/ StreamSend

StreamSpec == Init /\ [][StreamNext]_vars

----------------------------------------------------------------------------
(* AuthSpec: requests made as one customer, the token_invalid flag of the   *)
(* customer's row and the OAuth callback (api/deps.py, api/auth.py)         *)

\* what the request carries: a valid or a bad Bearer token, an X-Customer-ID
\* header naming the customer, no customer or no UUID, or neither header
Credentials == {"bearer", "bearer_bad", "x_customer_id", "x_unknown", "x_bad_uuid", "none"}

NamesCustomer(credentials) == credentials \in {"bearer", "x_customer_id"}

Endpoints == {"orders", "shipments", "chat", "chat_reset"}

\* the dependency each endpoint declares (api/orders.py:25, api/shipping.py:209,
\* api/chat.py:33, 96)
UsesOptional(endpoint) == endpoint \in {"chat", "chat_reset"}

Resolved(status, customer) == [status |-> status, customer |-> customer]

\* get_current_customer (api/deps.py:25-87)
GetCurrentCustomer(credentials, row) ==
  IF credentials = "bearer_bad" THEN Resolved(401, "none")
  ELSE IF credentials = "x_bad_uuid" THEN Resolved(400, "none")
  ELSE IF credentials = "none" THEN Resolved(401, "none")
  ELSE IF credentials = "x_unknown" THEN Resolved(404, "none")
  ELSE IF row.uninstalled THEN Resolved(403, "none")
  ELSE IF row.token_invalid = 1 THEN Resolved(401, "none")
  ELSE Resolved(200, "customer")

\* get_optional_customer (api/deps.py:90-127)
GetOptionalCustomer(credentials, row) ==
  IF credentials \in {"bearer_bad", "x_bad_uuid", "none", "x_unknown"} THEN Resolved(200, "none")
  ELSE IF row.uninstalled THEN Resolved(200, "none")
  ELSE Resolved(200, "customer")

\* one request: the dependency runs, and the endpoint with what it returned
ApiRequest ==
  /\ auth.requests < MaxAuthRequests
  /\ \E endpoint \in Endpoints, credentials \in Credentials :
       auth' = [auth EXCEPT
                  !.requests = @ + 1,
                  !.last = [endpoint |-> endpoint, credentials |-> credentials,
                            token_invalid |-> auth.token_invalid,
                            status |-> (IF UsesOptional(endpoint)
                                          THEN GetOptionalCustomer(credentials, auth)
                                          ELSE GetCurrentCustomer(credentials, auth)).status,
                            customer |-> (IF UsesOptional(endpoint)
                                            THEN GetOptionalCustomer(credentials, auth)
                                            ELSE GetCurrentCustomer(credentials, auth)).customer]]
  /\ UNCHANGED <<exec_vars, call_vars, env_vars, agent_vars, peer, rest_api, loop, stream>>

\* CustomerRepository.mark_token_invalid (repository.py:66-72)
MarkTokenInvalid ==
  /\ auth.token_invalid = 0
  /\ auth' = [auth EXCEPT !.token_invalid = 1]
  /\ UNCHANGED <<exec_vars, call_vars, env_vars, agent_vars, peer, rest_api, loop, stream>>

\* the app/uninstalled webhook sets uninstalled_at
Uninstall ==
  /\ ~auth.uninstalled
  /\ auth' = [auth EXCEPT !.uninstalled = TRUE]
  /\ UNCHANGED <<exec_vars, call_vars, env_vars, agent_vars, peer, rest_api, loop, stream>>

\* GET /auth/shopify/callback (api/auth.py:120-154): a failed token exchange
\* changes nothing, a successful one clears both marks
OAuthCallback ==
  /\ auth.token_invalid = 1 \/ auth.uninstalled
  /\ \E exchanged \in BOOLEAN :
       auth' = IF exchanged
                 THEN [auth EXCEPT !.token_invalid = 0, !.uninstalled = FALSE]
                 ELSE auth
  /\ UNCHANGED <<exec_vars, call_vars, env_vars, agent_vars, peer, rest_api, loop, stream>>

AuthNext == ApiRequest \/ MarkTokenInvalid \/ Uninstall \/ OAuthCallback

AuthSpec == Init /\ [][AuthNext]_vars

----------------------------------------------------------------------------
(* OrderSpec: the status column of the orders table under the tool calls of a *)
(* session, the Shopify order webhooks (api/webhooks.py:57-113) and the order *)
(* sync (api/orders.py:130-226)                                               *)

Topics == {"orders/create", "orders/updated", "orders/cancelled"}

\* fulfillment_status of a Shopify order payload; "null" is JSON null
FulfillmentStatuses == {"null", "fulfilled", "partial", "restocked"}

\* the status parse_shopify_order_webhook derives (api/webhooks.py:149-157)
WebhookStatus(fulfillment_status) ==
  IF fulfillment_status = "null" THEN "unfulfilled"
  ELSE IF fulfillment_status = "fulfilled" THEN "fulfilled"
  ELSE IF fulfillment_status = "partial" THEN "partial"
  ELSE "unfulfilled"

\* the status sync_orders derives (api/orders.py:188-190)
SyncStatus(fulfillment_status) ==
  IF fulfillment_status = "null" THEN "unfulfilled"
  ELSE IF fulfillment_status = "fulfilled" THEN "fulfilled"
  ELSE "partial"

\* POST /webhooks/shopify/orders for a shop and an order id of the table: the
\* row is looked up under the shop's customer; a payload whose id is not
\* found under that customer creates a new row and leaves the others alone
OrdersWebhook ==
  /\ pc = "idle"
  /\ \E topic \in Topics, shop \in {ThisCustomer, OtherCustomer}, o \in DbOrders,
        fulfillment_status \in FulfillmentStatuses :
       order_status' =
         IF OrderInfo[o].customer # shop THEN order_status
         ELSE IF topic = "orders/cancelled" THEN [order_status EXCEPT ![o] = "cancelled"]
         ELSE [order_status EXCEPT ![o] = WebhookStatus(fulfillment_status)]
  /\ UNCHANGED <<rate_cache, rate_id_to_cache_key, last_rates, use_db, labels_used, db_labels,
                 db_shipments, mock_shipments, purchases, call_vars, env_vars, agent_vars,
                 side_vars>>

\* POST /api/orders/sync of this customer: every fetched order that has a row
\* gets the status derived from its fulfillment_status
SyncOrders ==
  /\ pc = "idle"
  /\ \E fetched \in SUBSET { o \in DbOrders : OrderInfo[o].customer = ThisCustomer },
        fulfillment_status \in FulfillmentStatuses :
       order_status' = [o \in DbOrders |->
                          IF o \in fetched THEN SyncStatus(fulfillment_status)
                          ELSE order_status[o]]
  /\ UNCHANGED <<rate_cache, rate_id_to_cache_key, last_rates, use_db, labels_used, db_labels,
                 db_shipments, mock_shipments, purchases, call_vars, env_vars, agent_vars,
                 side_vars>>

\* a confirmed bulk_ship_orders call of the session, every collaborator well
OrderShip ==
  /\ CanCall
  /\ \E params \in { [cheapest |-> TRUE, confirmed |-> TRUE],
                      [order_ids |-> << "o1" >>, cheapest |-> TRUE, confirmed |-> TRUE] } :
       Call("bulk_ship_orders", params, [QuietEnv EXCEPT !.scen = AllOk])
  /\ UNCHANGED <<env_vars, agent_vars, side_vars>>

OrderNext == OrderShip \/ OrdersWebhook \/ SyncOrders

OrderSpec == Init /\ [][OrderNext]_vars

----------------------------------------------------------------------------
(* Properties of ToolExecutor *)

\* the step is an execute() call of the named tool
Called(tool_name) == calls' = calls + 1 /\ last_tool' = tool_name

\* rate_id resolves to a cached rate: the reverse index names a cache entry
\* that holds it
Resolves(rate_id) ==
  /\ rate_id \in DOMAIN rate_id_to_cache_key
  /\ rate_id_to_cache_key[rate_id] \in DOMAIN rate_cache
  /\ rate_id \in RateIdsOf(rate_cache[rate_id_to_cache_key[rate_id]].rates)

WellFormedShipment(params) ==
  IsDict(params) /\ FirstMissing(params, ShipmentFields) = "" /\ params.weight_oz.isnum

\* the label count the session started with
InitialLabels == IF use_db THEN InitialDbLabels ELSE DefaultLabelsUsed

\* C1: execute() returns a string for every tool name, every input and every
\* behaviour of its collaborators; no exception leaves it.
ExecuteNeverRaises == calls > 0 => outcome.tag = "return"

\* a collaborator or the input made the tool method raise something other
\* than KeyError, and execute() still returned a string
ExecuteCaughtException ==
  /\ inner.tag = "raise"
  /\ inner.exc.type # "KeyError"
  /\ outcome.tag = "return"
  /\ outcome.res.kind = "Error executing tool"

\* C2: create_shipment with a well-formed input whose rate_id does not resolve
\* returns the "not found in cache" message, buys nothing and leaves the
\* label count as it was.
UnresolvedRateBuysNothing ==
  [][(Called("create_shipment") /\ WellFormedShipment(last_input')
        /\ ~Resolves(last_input'.rate_id))
       => /\ outcome'.tag = "return"
          /\ outcome'.res.kind = NotFoundInCache
          /\ purchases' = purchases
          /\ labels_used' = labels_used
          /\ db_labels' = db_labels
          /\ db_shipments' = db_shipments]_vars

\* create_shipment named an id no quote of the session returned, with quotes
\* in the cache, and was refused
UnknownRateRefused ==
  /\ last_tool = "create_shipment"
  /\ WellFormedShipment(last_input)
  /\ last_input.rate_id \notin hist.issued
  /\ DOMAIN rate_cache # {}
  /\ outcome.res.kind = NotFoundInCache
  /\ purchases = 0

\* C3: the labels_used count of a customer of the database grows by exactly
\* one per successful label purchase, single or bulk.
LabelsCountPurchases == use_db => labels_used = InitialDbLabels + purchases

\* C4: bulk_ship_orders without confirmed=true buys no label, writes no
\* shipment, changes no order status and no label count, however often it is
\* called.
BulkPreviewChangesNothing ==
  [][(Called("bulk_ship_orders")
        /\ ~(IsDict(last_input') /\ Get(last_input', "confirmed", FALSE)))
       => /\ purchases' = purchases
          /\ db_shipments' = db_shipments
          /\ mock_shipments' = mock_shipments
          /\ order_status' = order_status
          /\ labels_used' = labels_used
          /\ db_labels' = db_labels]_vars

\* the preview ran twice over orders it would ship, and nothing was bought
PreviewedTwice ==
  /\ hist.previews = 2
  /\ outcome.res.kind = "Bulk Shipping Preview"
  /\ outcome.res.orders # << >>
  /\ purchases = 0
  /\ db_shipments = << >>
  /\ labels_used = InitialLabels

\* C5 as stated: once a quote for a key replaced the cached entry of that key,
\* no rate_id of the replaced entry resolves.
ReplacedNeverResolves == \A rate_id \in hist.replaced : ~Resolves(rate_id)

\* C5: a rate_id of a replaced entry that no later quote returned again does
\* not resolve, and create_shipment with it is refused without a purchase.
EvictedNeverResolves ==
  /\ [](\A rate_id \in hist.evicted : ~Resolves(rate_id))
  /\ [][(Called("create_shipment") /\ WellFormedShipment(last_input')
           /\ last_input'.rate_id \in hist.evicted)
          => /\ outcome'.res.kind \in NotFoundMessages
             /\ purchases' = purchases]_vars

\* create_shipment named an id of a replaced entry and was refused
EvictedRateRefused ==
  /\ last_tool = "create_shipment"
  /\ WellFormedShipment(last_input)
  /\ last_input.rate_id \in hist.evicted
  /\ outcome.res.kind \in NotFoundMessages
  /\ purchases = 0

----------------------------------------------------------------------------
(* Properties of the agent loop *)

IsToolUse(block) == block.type = "tool_use"
ToolUses(content) == SelectSeq(content, IsToolUse)
NotNewline(piece) == piece # "\n"

\* the step is a call of client.messages.create that returned a response
ModelReturned == model_calls' = model_calls + 1 /\ failed_at' = << >>
\* the step is a call of client.messages.create that raised
ModelRaised == model_calls' = model_calls + 1 /\ failed_at' # << >>

Apologies == { Apology(failure).kind : failure \in ModelFailures }

\* the tool results gathered so far answer the tool_use blocks of the
\* response one for one, in order, each being what execute() returned
ResultsMatchBlocks ==
  LET uses == ToolUses(response.content)
      k == Len(tool_results)
  IN /\ k <= Len(uses)
     /\ \A j \in 1..k : tool_results[j].type = "tool_result" /\ tool_results[j].id = uses[j].id
     /\ k > 0 => /\ last_tool = uses[k].name
                 /\ last_input = uses[k].input
                 /\ tool_results[k].content = outcome.res
     /\ messages[Len(messages)] = MsgList("assistant", response.content)

\* the history ends with the assistant message of the response followed by
\* one user message holding a tool_result for each of its tool_use blocks
ToolRoundAnswered ==
  LET n == Len(messages)
      uses == ToolUses(response.content)
  IN /\ n >= 2
     /\ messages[n - 1] = MsgList("assistant", response.content)
     /\ messages[n] = MsgList("user", messages[n].blocks)
     /\ Len(messages[n].blocks) = Len(uses)
     /\ \A k \in 1..Len(uses) :
          /\ messages[n].blocks[k].type = "tool_result"
          /\ messages[n].blocks[k].id = uses[k].id

\* C6: after a tool_use response, execute() runs once per tool_use block in
\* order, each block gets exactly one tool_result with its id, and the results
\* are one user message right after the assistant message when the model is
\* called again.
ToolResultsPairUp ==
  /\ [](pc = "executing_tools" => ResultsMatchBlocks)
  /\ [][(tools_run' # tools_run)
          => /\ tools_run' = tools_run + 1
             /\ calls' = calls + 1
             /\ Len(tool_results') = Len(tool_results) + 1]_vars
  /\ [][(model_calls' = model_calls + 1 /\ response.stop_reason = "tool_use")
          => ToolRoundAnswered]_vars

\* a response with two tool_use blocks was answered and the model is due
TwoToolsAnswered ==
  /\ pc = "awaiting_model"
  /\ response.stop_reason = "tool_use"
  /\ Len(ToolUses(response.content)) = 2
  /\ tools_run >= 2
  /\ ToolRoundAnswered

\* C7: the turn ends exactly at a response without tool_use blocks, and the
\* reply is the text blocks of that response in order.
TurnEndsIffNoToolUse ==
  [][ModelReturned
       => /\ (pc' = "idle") <=> (ToolUses(response'.content) = << >>)
          /\ (pc' = "idle" /\ chat_result'.kind = "final")
               => SelectSeq(chat_result'.text, NotNewline) = TextParts(response'.content)]_vars

\* the kinds of string a tool returns when it failed
ToolErrors == {"Error getting rates", "Error creating shipment", "Error: Missing required field",
               "Error executing tool"}

\* C8: a failed model call, a failed tool call and a failed save of the
\* conversation leave the history and the rate cache as they were when the
\* failing call was made.
FailureLeavesState ==
  [][/\ ModelRaised
          => UNCHANGED <<messages, conv_messages, rate_cache, rate_id_to_cache_key, last_rates>>
     /\ (calls' = calls + 1 /\ outcome'.res.kind \in ToolErrors)
          => UNCHANGED <<messages, conv_messages, rate_cache, rate_id_to_cache_key, last_rates>>
     /\ (ModelReturned /\ chat_result'.kind = "An unexpected error occurred")
          => /\ messages' = Append(messages, MsgList("assistant", response'.content))
             /\ UNCHANGED <<conv_messages, rate_cache, rate_id_to_cache_key, last_rates>>]_vars

\* the provider refused a quote for a key that was cached, and later the
\* model call of the turn failed
FailedWithCacheFilled ==
  /\ failed_at # << >>
  /\ last_tool = "get_shipping_rates"
  /\ outcome.res.kind = "Error getting rates"
  /\ RateCacheKey(last_input.to_zip, last_input.weight_oz) \in DOMAIN rate_cache
  /\ Len(messages) >= 5

\* C9: a model call that fails ends the turn with one apology; no model call
\* and no tool follows in that turn.
TransportFailureEndsTurn ==
  failed_at # << >>
    => /\ pc = "idle"
       /\ chat_result.kind \in Apologies
       /\ model_calls = failed_at[1]
       /\ tools_run = failed_at[2]

\* the model call timed out after a round of tools
TimedOutAfterTools ==
  /\ failed_at # << >>
  /\ tools_run > 0
  /\ pc = "idle"
  /\ chat_result.kind = "The request timed out. Please try again with a simpler request."

\* C10: no string handed back by chat() or by a tool carries the text of the
\* exception that caused it.
NoExceptionTextReturned ==
  /\ chat_result.detail \notin RawTexts
  /\ outcome.res.detail \notin RawTexts

----------------------------------------------------------------------------
(* Properties of sessions side by side *)

\* what the second session observes: its history, its rate cache, and what its
\* tracking, order-listing and shipment tool calls would return now
PeerView ==
  [history |-> peer.messages,
   rate_cache |-> peer.rate_cache,
   index |-> peer.idx,
   tracking |-> [o \in {"m1", "o1"} |->
                   Execute(PeerState, "get_tracking_status", [order_id |-> o], QuietEnv, now).res],
   orders |-> Execute(PeerState, "get_unfulfilled_orders", EmptyDict, QuietEnv, now).res,
   shipment |-> [r \in RateIds |->
                   Execute(PeerState, "create_shipment", ShipInput("90001", W32, r), QuietEnv,
                           now).res]]

\* C11: without a database, no message and no tool call of one session changes
\* what another session observes: its history, its rate cache, the outcome of
\* its tracking, order-listing and shipment tool calls.
SessionsIndependent ==
  [][(~use_db /\ (calls' # calls \/ messages' # messages)) => PeerView' = PeerView]_vars

----------------------------------------------------------------------------
(* Properties of the rate cache over time *)

\* seconds since the quote holding rate_id was stored
QuoteAge(rate_id) == now - rate_cache[rate_id_to_cache_key[rate_id]].timestamp

\* the step is a create_shipment call, well-formed, whose rate_id resolves
BuysResolved ==
  /\ Called("create_shipment")
  /\ WellFormedShipment(last_input')
  /\ Resolves(last_input'.rate_id)

HasWarning(res, warning) == \E i \in 1..Len(res.warnings) : res.warnings[i] = warning

\* C12: a rate resolved no more than 15 minutes after its quote was stored
\* carries no staleness warning; one resolved later carries the warning and
\* still resolves, and create_shipment still attempts the purchase; the
\* passing of time removes no cache entry.
AgeOnlyWarns ==
  /\ [](\A rate_id \in RateIds :
          Resolves(rate_id) =>
            /\ GetRateById(ExecState, rate_id, now).found
            /\ (GetRateById(ExecState, rate_id, now).warning = StaleWarning)
                 <=> (QuoteAge(rate_id) > 15 * 60)
            /\ GetRateById(ExecState, rate_id, now).warning \in {"", StaleWarning})
  /\ [][BuysResolved =>
          /\ outcome'.res.kind \in {"Shipment created successfully!", "Error creating shipment"}
          /\ (inner'.tag = "return" /\ outcome'.res.kind = "Shipment created successfully!")
               => /\ purchases' = purchases + 1
                  /\ HasWarning(outcome'.res, StaleWarning)
                       <=> (QuoteAge(last_input'.rate_id) > 15 * 60)
          /\ rate_cache' = rate_cache
          /\ rate_id_to_cache_key' = rate_id_to_cache_key]_vars
  /\ [][now' # now =>
          /\ rate_cache' = rate_cache
          /\ rate_id_to_cache_key' = rate_id_to_cache_key]_vars

\* a label was bought with a quote older than 15 minutes, and the answer
\* carries the staleness warning
StaleQuoteBought ==
  /\ last_tool = "create_shipment"
  /\ WellFormedShipment(last_input)
  /\ Resolves(last_input.rate_id)
  /\ QuoteAge(last_input.rate_id) > 15 * 60
  /\ outcome.res.kind = "Shipment created successfully!"
  /\ HasWarning(outcome.res, StaleWarning)
  /\ purchases = 1

----------------------------------------------------------------------------
(* Properties of a quote *)

\* the last call was get_shipping_rates and it returned a list of rates
QuoteReturned ==
  /\ last_tool = "get_shipping_rates"
  /\ outcome.tag = "return"
  /\ outcome.res.kind = "Available shipping rates (sorted by price)"

\* the cache entry the last get_shipping_rates call wrote
QuoteEntry == rate_cache[RateCacheKey(last_input.to_zip, last_input.weight_oz)]

NonDecreasing(rates) == \A i, j \in 1..Len(rates) : i < j => rates[i].rate <= rates[j].rate

\* position of the rate with this id in rates
PosOf(rates, rate_id) == CHOOSE i \in 1..Len(rates) : rates[i].rate_id = rate_id

\* sorted holds the rates of quoted, those of equal price in quoted's order
StableSortOf(sorted, quoted) ==
  /\ Len(sorted) = Len(quoted)
  /\ \A i \in 1..Len(quoted) : \E j \in 1..Len(sorted) : sorted[j] = quoted[i]
  /\ NonDecreasing(sorted)
  /\ \A i, j \in 1..Len(quoted) :
       (i < j /\ quoted[i].rate = quoted[j].rate)
         => PosOf(sorted, quoted[i].rate_id) < PosOf(sorted, quoted[j].rate_id)

\* C13: the rates get_shipping_rates renders and caches are in non-decreasing
\* price order whatever order the provider quoted them in, and rates of equal
\* price keep the provider's relative order.
QuoteSortedByPrice ==
  QuoteReturned =>
    /\ StableSortOf(QuoteEntry.rates, hist.quoted)
    /\ outcome.res.rates = Take(QuoteEntry.rates, 10)
    /\ NonDecreasing(outcome.res.rates)

\* the provider quoted the dearer rate first and the answer lists it last
DearerQuotedFirst ==
  /\ QuoteReturned
  /\ Len(hist.quoted) = 2
  /\ hist.quoted[1].rate > hist.quoted[2].rate
  /\ outcome.res.rates = << hist.quoted[2], hist.quoted[1] >>

----------------------------------------------------------------------------
(* Properties of summarization *)

\* the step is the start of a turn: the user message is appended and the
\* summarization check runs
TurnStarts == pc = "idle" /\ pc' = "awaiting_model"

\* the history the summarization check sees: the old one and the new user message
HistoryChecked == Append(messages, messages'[Len(messages')])

OverThreshold(msgs) == EstimateConversationTokens(msgs) > 50000

\* to is the rewriting of from: summary, acknowledgement, the last 10 of from
Rewritten(from, to) ==
  /\ Len(to) = 12
  /\ to[1].role = "user"
  /\ to[1].text = "[Conversation context]"
  /\ to[2].role = "assistant"
  /\ to[2].text = "I understand. Let me continue helping you with your shipping needs."
  /\ SubSeq(to, 3, 12) = SubSeq(from, Len(from) - 9, Len(from))

\* C14: the summarization check before a turn rewrites the history only when
\* the token estimate exceeds 50,000 and the history has more than 10
\* messages; the result is one summary message (user), one acknowledgement
\* (assistant) and the last 10 messages unchanged, 12 in total; in every
\* other case the history is left as it was.
SummarizationRule ==
  [][TurnStarts =>
       IF OverThreshold(HistoryChecked) /\ Len(HistoryChecked) > 10
       THEN Rewritten(HistoryChecked, messages')
       ELSE messages' = HistoryChecked]_vars

\* a turn started on a long history and rewrote it
HistoryRewritten ==
  /\ pc = "awaiting_model"
  /\ turns = 1
  /\ Len(messages) = 12
  /\ messages[1].text = "[Conversation context]"
  /\ messages[12].role = "user"

\* C15 as stated: with the threshold exceeded, a history of exactly 11
\* messages is left untouched.
ElevenLeftUntouched ==
  [][(TurnStarts /\ OverThreshold(HistoryChecked) /\ Len(HistoryChecked) = 11)
       => messages' = HistoryChecked]_vars

\* C15: with the threshold exceeded, a history of exactly 10 messages is left
\* untouched; one of exactly 11 messages is rewritten: a summary of its first
\* message, the acknowledgement and its last 10 messages.
TenLeftUntouched ==
  [][(TurnStarts /\ OverThreshold(HistoryChecked))
       => /\ Len(HistoryChecked) = 10 => messages' = HistoryChecked
          /\ Len(HistoryChecked) = 11
               => /\ Rewritten(HistoryChecked, messages')
                  /\ SubSeq(messages', 3, 12) = Tail(HistoryChecked)]_vars

\* a turn started on a history of 10 messages over the threshold
TenOverThreshold ==
  /\ pc = "awaiting_model"
  /\ turns = 1
  /\ Len(messages) = 10
  /\ OverThreshold(messages)
  /\ messages[1].text # "[Conversation context]"

----------------------------------------------------------------------------
(* Properties of execute() on bad input *)

\* the sentences of the executor that contain "Error" or "error"
ErrorSentences ==
  { "Error: Missing required field", "Error executing tool",
    "Error: Please provide either tracking_number or order_id", "Error getting rates",
    "Error creating shipment", "Error getting tracking info", "Error validating address" }

\* the returned string contains "Error" or "error": in its sentence, in the
\* text it quotes, or in the "Errors (n orders):" part of a bulk answer
MentionsError(res) ==
  \/ res.kind \in ErrorSentences
  \/ res.detail \in {RawProviderText, RawDbText, "An error occurred while fetching shipping rates."}
  \/ res.errors # << >>

SixTools ==
  { "get_shipping_rates", "validate_address", "create_shipment", "get_tracking_status",
    "get_unfulfilled_orders", "bulk_ship_orders" }

LacksRequired(tool_name, params) ==
  IsDict(params) /\ FirstMissing(params, RequiredFields(tool_name)) # ""

\* C16 as stated: each of the six tools, called with an empty or malformed
\* input, returns a string that contains "Error" or "error".
EmptyOrMalformedReported ==
  (calls > 0 /\ last_tool \in SixTools
     /\ (last_input = EmptyDict \/ ~IsDict(last_input)
           \/ LacksRequired(last_tool, last_input)))
    => (outcome.tag = "return" /\ MentionsError(outcome.res))

\* C16: each of the six tools returns a string containing "Error" when its
\* input is not a mapping; get_shipping_rates, validate_address and
\* create_shipment when the input lacks a required field, the empty mapping
\* included; get_tracking_status on the empty mapping.  get_unfulfilled_orders
\* has no required field: on the empty mapping it returns its order listing,
\* without "Error", unless the database fails.
MalformedInputReported ==
  /\ (calls > 0 /\ last_tool \in SixTools
        /\ (~IsDict(last_input) \/ LacksRequired(last_tool, last_input)
              \/ (last_tool = "get_tracking_status" /\ last_input = EmptyDict)))
       => (outcome.tag = "return" /\ MentionsError(outcome.res))
  /\ (last_tool = "get_unfulfilled_orders" /\ last_input = EmptyDict /\ inner.tag = "return")
       => /\ outcome.res.kind \in {"Unfulfilled Orders", "No unfulfilled orders found."}
          /\ ~MentionsError(outcome.res)

\* get_tracking_status was called with the empty mapping and asked for one of
\* its fields
EmptyTrackingRefused ==
  /\ last_tool = "get_tracking_status"
  /\ last_input = EmptyDict
  /\ outcome.tag = "return"
  /\ outcome.res.kind = "Error: Please provide either tracking_number or order_id"

----------------------------------------------------------------------------
(* Properties of bulk_ship_orders when a rate lookup fails *)

\* the step is a bulk_ship_orders call that returned a preview or a completion report
BulkAnswered ==
  /\ Called("bulk_ship_orders")
  /\ IsDict(last_input')
  /\ outcome'.tag = "return"
  /\ outcome'.res.kind \in {"Bulk Shipping Preview", "Bulk Shipping Complete!"}

\* the orders the call works on
BulkOrdersOfCall ==
  BulkCandidates(ExecState, Get(last_input', "order_ids", << >>),
                 Get(last_input', "filter", EmptyDict))

LookupFailed(scenario) == scenario \in {"no_rates", "quote_error"}

\* the answer lists order o among the orders quoted or shipped
ListsOrder(res, o) == \E i \in 1..Len(res.orders) : res.orders[i] = o
\* the answer reports order o with an error text
ReportsError(res, o) == \E i \in 1..Len(res.errors) : res.errors[i][1] = o /\ res.errors[i][2] # ""

\* C17: in the preview and in the execution of bulk_ship_orders, an order
\* whose rate lookup fails is left out of the cost total and of the orders
\* quoted or shipped, is reported in the returned text with its error, and
\* the orders whose lookup succeeds are still quoted or purchased.
FailedLookupReported ==
  [][BulkAnswered =>
       \A i \in 1..Len(BulkOrdersOfCall) :
         IF LookupFailed(hist'.scen[BulkOrdersOfCall[i]])
         THEN /\ ~ListsOrder(outcome'.res, BulkOrdersOfCall[i])
              /\ ReportsError(outcome'.res, BulkOrdersOfCall[i])
              /\ (Len(outcome'.res.orders) = 0 => outcome'.res.total = 0)
         ELSE hist'.scen[BulkOrdersOfCall[i]] = "ok"
                => ListsOrder(outcome'.res, BulkOrdersOfCall[i])]_vars

----------------------------------------------------------------------------
(* Properties of the warnings of create_shipment *)

ZipWarning == "Warning: Destination ZIP changed since rates were fetched."
WeightWarning == "Warning: Package weight changed since rates were fetched."

\* the cache entry that holds rate_id
EntryOf(rate_id) == rate_cache[rate_id_to_cache_key[rate_id]]

Succeeded(call) == call.tag = "return" /\ call.res.kind = "Shipment created successfully!"

\* C18 as stated: when the rate_id resolves the purchase is attempted; the
\* success message carries a mismatch warning exactly when the zip or the
\* weight of the request differs from the cached one, and no warning at all
\* when both are equal and the quote is at most 15 minutes old.
MismatchWarnedExactly ==
  [][BuysResolved =>
       /\ outcome'.res.kind \in {"Shipment created successfully!", "Error creating shipment"}
       /\ Succeeded(outcome') =>
            /\ (HasWarning(outcome'.res, ZipWarning) \/ HasWarning(outcome'.res, WeightWarning))
                 <=> \/ EntryOf(last_input'.rate_id).destination_zip # last_input'.to_zip
                     \/ EntryOf(last_input'.rate_id).weight_oz.num # last_input'.weight_oz.num
            /\ ( /\ EntryOf(last_input'.rate_id).destination_zip = last_input'.to_zip
                 /\ EntryOf(last_input'.rate_id).weight_oz.num = last_input'.weight_oz.num
                 /\ QuoteAge(last_input'.rate_id) <= 15 * 60 )
                 => outcome'.res.warnings = << >>]_vars

\* C18: when the rate_id of a well-formed create_shipment resolves, the
\* purchase is attempted; the success message carries the zip warning exactly
\* when the request's zip differs from the cached one, the weight warning
\* exactly when the weights differ by more than 0.1 oz, and no warning at all
\* when the zip is the same, the weights are within 0.1 oz and the quote is at
\* most 15 minutes old.
MismatchWarnedBeyondTolerance ==
  [][BuysResolved =>
       /\ outcome'.res.kind \in {"Shipment created successfully!", "Error creating shipment"}
       /\ Succeeded(outcome') =>
            /\ purchases' = purchases + 1
            /\ HasWarning(outcome'.res, ZipWarning)
                 <=> EntryOf(last_input'.rate_id).destination_zip # last_input'.to_zip
            /\ HasWarning(outcome'.res, WeightWarning)
                 <=> AbsDiff(EntryOf(last_input'.rate_id).weight_oz.num,
                             last_input'.weight_oz.num) > 10
            /\ ( /\ EntryOf(last_input'.rate_id).destination_zip = last_input'.to_zip
                 /\ AbsDiff(EntryOf(last_input'.rate_id).weight_oz.num,
                            last_input'.weight_oz.num) <= 10
                 /\ QuoteAge(last_input'.rate_id) <= 15 * 60 )
                 => outcome'.res.warnings = << >>]_vars

\* a label was bought for a weight 0.05 oz off the quoted one, without warning
SlightlyHeavierBought ==
  /\ last_tool = "create_shipment"
  /\ WellFormedShipment(last_input)
  /\ last_input.weight_oz = W3205
  /\ Resolves(last_input.rate_id)
  /\ EntryOf(last_input.rate_id).weight_oz = W32
  /\ Succeeded(outcome)
  /\ outcome.res.warnings = << >>
  /\ purchases = 1

----------------------------------------------------------------------------
(* Properties of a quote for a key that has an entry *)

\* the key of the quote request of this step
KeyAsked == RateCacheKey(last_input'.to_zip, last_input'.weight_oz)

\* the step is a well-formed get_shipping_rates call for a key with an entry
QuotesCachedKey ==
  /\ Called("get_shipping_rates")
  /\ IsDict(last_input')
  /\ FirstMissing(last_input', RequiredFields("get_shipping_rates")) = ""
  /\ last_input'.weight_oz.isnum
  /\ KeyAsked \in DOMAIN rate_cache

\* the rate ids of the entry the request found, without those the answer lists
OldIdsNotReissued ==
  RateIdsOf(rate_cache[KeyAsked].rates) \ RateIdsOf(outcome'.res.rates)

\* C19 as stated: a quote request for a key that has a cache entry supersedes
\* that entry whatever the provider returns: the old entry and its rate_id
\* index entries are gone afterwards.
QuoteAlwaysSupersedes ==
  [][QuotesCachedKey =>
       /\ \A rate_id \in OldIdsNotReissued : rate_id \notin DOMAIN rate_id_to_cache_key'
       /\ outcome'.res.rates = << >> => KeyAsked \notin DOMAIN rate_cache']_vars

\* C19: a quote request for a key that has a cache entry supersedes that entry
\* when the provider returns rates: the entry then holds the new rates, and
\* the rate ids of the old entry that the new quote does not carry are gone
\* from both indexes.  When the provider fails or returns no rates, the entry
\* and the indexes stay as they were.
NonEmptyQuoteSupersedes ==
  [][QuotesCachedKey =>
       IF outcome'.res.rates # << >>
       THEN /\ rate_cache'[KeyAsked].rates = outcome'.res.rates
            /\ \A rate_id \in OldIdsNotReissued :
                 /\ rate_id \notin DOMAIN rate_id_to_cache_key'
                 /\ rate_id \notin DOMAIN last_rates'
            /\ \A rate_id \in RateIdsOf(outcome'.res.rates) :
                 rate_id_to_cache_key'[rate_id] = KeyAsked
       ELSE /\ outcome'.res.kind \in {"Error getting rates", "No rates available for this shipment."}
            /\ rate_cache' = rate_cache
            /\ rate_id_to_cache_key' = rate_id_to_cache_key
            /\ last_rates' = last_rates]_vars

\* a second quote for a key replaced its entry, and an id of the old entry
\* is in no index
QuoteSuperseded ==
  /\ last_tool = "get_shipping_rates"
  /\ outcome.res.rates # << >>
  /\ hist.replaced # {}
  /\ \E rate_id \in hist.replaced :
       /\ rate_id \notin RateIdsOf(outcome.res.rates)
       /\ rate_id \notin DOMAIN rate_id_to_cache_key
       /\ rate_id \notin DOMAIN last_rates

----------------------------------------------------------------------------
(* Properties of the REST shipment endpoint *)

\* C20: the REST shipment endpoint buys a label only while the customer's
\* labels_this_month is below labels_limit at the time of the purchase, and
\* labels_this_month never rises above labels_limit, with several requests
\* of the customer in flight.
RestLimitHolds ==
  /\ [](rest_api.labels_this_month <= LabelsLimit)
  /\ [][rest_api'.purchases > rest_api.purchases
          => rest_api.labels_this_month < LabelsLimit]_vars

----------------------------------------------------------------------------
(* Properties of a reset *)

\* C21: after a reset of the session nothing from before is left for the next
\* message: the history is empty, and no rate quoted before the reset
\* resolves for a follow-up shipment.
ResetForgets ==
  [][hist'.resets > hist.resets
       => /\ messages' = << >>
          /\ \A rate_id \in hist.issued :
               ~GetRateById(ExecState', rate_id, now').found]_vars

----------------------------------------------------------------------------
(* Properties of chat requests on the event loop *)

BlockedOnExternalCall(r) == loop.pc[r] \in {"model", "shipping"}

\* C22: while the turn of one chat request is blocked in a model call or a
\* shipping-API call, a chat request of another session that has reached the
\* server can be taken up by its handler
OthersNotStalled ==
  \A a \in LoopRequests : \A b \in LoopRequests \ {a} :
    (BlockedOnExternalCall(a) /\ loop.pc[b] = "queued") => ENABLED LoopRun(b)

----------------------------------------------------------------------------
(* Properties of the streamed events *)

Sent(i, type) == i \in 1..Len(stream.log) /\ stream.log[i].type = type

DispatchBetween(i, j, tool) ==
  \E k \in (i + 1)..(j - 1) : stream.log[k] = Event("dispatch", tool)

\* C23: of the events sent for one message, a tool_complete follows the
\* tool_start of its tool with the dispatch of that tool between the two, and
\* nothing is sent after complete
EventsAtTheirPoints ==
  /\ \A j \in 1..Len(stream.log) :
       Sent(j, "tool_complete")
         => \E i \in 1..(j - 1) :
              /\ stream.log[i] = Event("tool_start", stream.log[j].tool)
              /\ DispatchBetween(i, j, stream.log[j].tool)
  /\ \A i \in 1..Len(stream.log) : Sent(i, "complete") => i = Len(stream.log)

----------------------------------------------------------------------------
(* Properties of the auth dependencies *)

\* C24: a request made as the customer while the token_invalid flag is set is
\* rejected, and its endpoint does not run with the customer's context
InvalidTokenBlocked ==
  (NamesCustomer(auth.last.credentials) /\ auth.last.token_invalid = 1)
    => (auth.last.status >= 400 /\ auth.last.customer = "none")

----------------------------------------------------------------------------
(* Properties of the history handed to the model *)

BlockIds(msg, type) ==
  IF msg.kind = "list"
  THEN { msg.blocks[k].id : k \in { k \in 1..Len(msg.blocks) : msg.blocks[k].type = type } }
  ELSE {}

\* every tool_result answers a tool_use of the assistant message right before
\* it, and every assistant message with tool_use blocks is followed at once by
\* a user message holding their tool_results
WellFormedForTools(msgs) ==
  \A i \in 1..Len(msgs) :
    /\ BlockIds(msgs[i], "tool_result") # {}
         => /\ i > 1
            /\ msgs[i - 1].role = "assistant"
            /\ BlockIds(msgs[i], "tool_result") \subseteq BlockIds(msgs[i - 1], "tool_use")
    /\ (msgs[i].role = "assistant" /\ BlockIds(msgs[i], "tool_use") # {})
         => /\ i < Len(msgs)
            /\ msgs[i + 1].role = "user"
            /\ BlockIds(msgs[i], "tool_use") \subseteq BlockIds(msgs[i + 1], "tool_result")

\* C25: whenever the model is about to be called, the history is well-formed
\* for the tool protocol
ToolProtocolAtModelCall == pc = "awaiting_model" => WellFormedForTools(messages)

----------------------------------------------------------------------------
(* Properties of the orders a session touches *)

OrdersOfOthers == { o \in DbOrders : OrderInfo[o].customer # ThisCustomer }

HasShipment(o) == \E i \in 1..Len(db_shipments) : db_shipments[i].order_id = o

\* C26: the tool calls of this customer's session leave the orders of other
\* customers as they were: no shipment is attached to one, and none changes
\* its status
OtherCustomersOrdersUntouched ==
  \A o \in OrdersOfOthers : order_status[o] = "unfulfilled" /\ ~HasShipment(o)

BulkCallMade == calls' = calls + 1 /\ last_tool' = "bulk_ship_orders"

\* C27: a bulk_ship_orders call buys no label for an order that already has
\* one: each shipment row it adds is for an order without a row so far, and
\* each label it buys for a mock order is that order's first
BulkBuysNoSecondLabel ==
  [][BulkCallMade
       => /\ \A i \in (Len(db_shipments) + 1)..Len(db_shipments') :
               ~HasShipment(db_shipments'[i].order_id)
          /\ ~use_db => purchases' - purchases = Cardinality(mock_shipments' \ mock_shipments)]_vars

----------------------------------------------------------------------------
(* Properties of the status of an order *)

\* C28: an order whose status is shipped or cancelled does not go back to
\* unfulfilled
ShippedStaysShipped ==
  [][\A o \in DbOrders :
       order_status[o] \in {"shipped", "cancelled"} => order_status'[o] # "unfulfilled"]_vars

----------------------------------------------------------------------------
(* Properties of the roles of the history *)

\* the first message is a user message and no two neighbours have one role
RolesAlternate(msgs) ==
  /\ msgs # << >> => msgs[1].role = "user"
  /\ \A i \in 1..(Len(msgs) - 1) : msgs[i].role # msgs[i + 1].role

\* C29: whenever the model is about to be called, the history begins with a
\* user message and its roles alternate
RolesAlternateAtModelCall == pc = "awaiting_model" => RolesAlternate(messages)

----------------------------------------------------------------------------
(* Properties of the rate id indexes *)

CacheKeys == DOMAIN rate_cache

HeldUnder(rate_id, cache_key) ==
  cache_key \in CacheKeys /\ rate_id \in RateIdsOf(rate_cache[cache_key].rates)

MapsTo(rate_id, cache_key) ==
  rate_id \in DOMAIN rate_id_to_cache_key /\ rate_id_to_cache_key[rate_id] = cache_key

\* C30: the reverse index maps a rate_id to a key exactly when the cache entry
\* of that key lists the rate_id, and _last_rates holds the rate_ids of the
\* reverse index
IndexAgreesWithCache ==
  /\ \A rate_id \in RateIds :
       /\ \A cache_key \in CacheKeys : HeldUnder(rate_id, cache_key) <=> MapsTo(rate_id, cache_key)
       /\ rate_id \in DOMAIN rate_id_to_cache_key
            => HeldUnder(rate_id, rate_id_to_cache_key[rate_id])
  /\ DOMAIN last_rates = DOMAIN rate_id_to_cache_key

=============================================================================
